---- MODULE Spec2Model ----
(***************************************************************************)
(* Authentication subsystem of smart-office-ai: the user store, the        *)
(* register / login / 2FA endpoints of backend/app/api/v1/auth.py and the  *)
(* helpers of backend/app/core/security.py, as interleaved requests.       *)
(***************************************************************************)
EXTENDS Integers, Sequences, FiniteSets, TLC

(* ------------------------------ bounds -------------------------------- *)
MaxUsers == 2      \* user records the store may hold
MaxReq == 2        \* requests in flight at the same time
MaxTicks == 1      \* 30-second steps the clock may advance
MaxSecs == 2       \* seconds the clock may advance one by one
MaxHalfSteps == 6  \* 15-second steps the clock may advance
MaxConvs == 2      \* conversations ever created
MaxMsgs == 4       \* messages a conversation may hold

(* ------------------------- program constants -------------------------- *)
ACCESS_TOKEN_EXPIRE_MINUTES == 30
TOTP_INTERVAL == 30          \* pyotp's default step, used by TOTP(secret, digits=6)
TOTP_DIGITS == 6
DEFAULT_WINDOW == 1
BCRYPT_LIMIT == 72
TITLE_LIMIT == 50            \* characters of the first message a generated title keeps

UserIds == 1..MaxUsers
Slots == 1..MaxReq
Emails == {"a@x", "b@x"}
Usernames == {"alice", "bob"}

(* ------------------------------ passwords ----------------------------- *)
\* A password is <<head, tail>>: head names its first BCRYPT_LIMIT bytes,
\* tail names the bytes after them ("" when it has none).
Passwords == {<<"Pw1", "">>, <<"Pw2", "">>, <<"Pw1", "x">>}
DummyPassword == <<"dummy", "">>
Salts == {"saltA", "saltB"}

\* password.encode("utf-8")[:72]
Truncate(password) == password[1]

\* bcrypt.hashpw(password_bytes, salt): the salt travels with the digest, the
\* digest is a one-way function of (salt, truncated password).
HashWith(password, salt) == [salt |-> salt, digest |-> <<salt, Truncate(password)>>]

\* get_password_hash draws a fresh salt on every call.
PasswordHashes(password) == {HashWith(password, s) : s \in Salts}

\* verify_password comparing no more than the salt.
verify_password_SaltOnly(plain_password, hashed_password) ==
    /\ hashed_password.salt \in Salts

\* bcrypt.checkpw inside try/except: it raises for a string that is no bcrypt
\* hash (no valid salt), which the except clause turns into False.
verify_password(plain_password, hashed_password) ==
    /\ hashed_password.salt \in Salts
    /\ hashed_password.digest = <<hashed_password.salt, Truncate(plain_password)>>

(* -------------------------------- TOTP -------------------------------- *)
ValidSecrets == {"SECRETA", "SECRETB"}      \* 32 base-32 characters
MalformedSecret == "0000"                   \* 32 characters outside A-Z2-7
NoSecret == "null"                          \* totp_secret IS NULL
EmptySecret == ""                           \* "": base-32 of the empty key
LongSecret == "AAAA"                        \* "A" * 1000: base-32 of 625 zero bytes

\* The strings base64.b32decode accepts: the HMAC key is their decoding,
\* whatever its length.
Base32Secrets == ValidSecrets \cup {EmptySecret, LongSecret}

Key(secret) ==
    IF secret = "SECRETA" THEN 1
    ELSE IF secret = "SECRETB" THEN 2
    ELSE IF secret = LongSecret THEN 3
    ELSE 4

\* pyotp: the step number of a Unix time.
TimeCode(t) == t \div TOTP_INTERVAL

\* pyotp generate_otp: HMAC(secret, counter) truncated to TOTP_DIGITS decimal
\* digits; a code is the number its digit string denotes.
Hotp(secret, counter) == (Key(secret) * 7919 + counter * 104729) % (10 ^ TOTP_DIGITS)

\* A code string that is not TOTP_DIGITS digits long never equals a generated
\* one: "", "wrong" and "12345" are the numbers from MalformedCode on.
WellFormedCode(code) == code >= 0 /\ code < 10 ^ TOTP_DIGITS
MalformedCode == 10 ^ TOTP_DIGITS
MalformedCodes == {MalformedCode, MalformedCode + 1, MalformedCode + 2}

\* verify_totp trying the current step and earlier ones only.
verify_totp_w_PastOnly(secret, token, window, t) ==
    /\ secret \in Base32Secrets
    /\ window > 0 => TimeCode(t) - window >= 0
    /\ WellFormedCode(token)
    /\ \E i \in (0 - window)..0 : token = Hotp(secret, TimeCode(t) + i)

\* TOTP(secret, digits=6).verify(token, valid_window=window) inside try/except:
\* b32decode raises for a string outside the alphabet and generate_otp raises
\* for a negative counter, the first counter tried being the lowest.
verify_totp_w(secret, token, window, t) ==
    /\ secret \in Base32Secrets
    /\ window > 0 => TimeCode(t) - window >= 0
    /\ WellFormedCode(token)
    /\ \E i \in (0 - window)..window : token = Hotp(secret, TimeCode(t) + i)

\* verify_totp comparing with the current step only.
verify_totp_NoDrift(secret, token, t) == verify_totp_w(secret, token, 0, t)

verify_totp(secret, token, t) == verify_totp_w(secret, token, DEFAULT_WINDOW, t)

(* ------------------------------- tokens ------------------------------- *)
JWT_SECRET_KEY == "server-key"
OtherKey == "other-key"

\* Times and durations of the token codec are in milliseconds: a datetime and
\* a timedelta carry a sub-second part, a NumericDate of a JWT does not.
Seconds(n) == n * 1000

\* A compact JWS: the claims of its payload and the key its signature was
\* made with. NoToken is a string that does not parse as one.
NoClaims == [k \in {} |-> 0]
NoToken == [form |-> "garbage", key |-> "", payload |-> NoClaims]

\* An absent expires_delta is <<>>, a timedelta d is <<d>>.
NoDelta == <<>>

\* create_access_token leaving an exp of the caller's in place.
create_access_token_KeepCallerExp(data, expires_delta, t) ==
    LET expire == IF expires_delta # NoDelta /\ expires_delta[1] # 0
                  THEN t + expires_delta[1]
                  ELSE t + Seconds(ACCESS_TOKEN_EXPIRE_MINUTES * 60)
    IN [form |-> "jws", key |-> JWT_SECRET_KEY,
        payload |-> [k \in DOMAIN data \cup {"exp"} |->
                        IF k \in DOMAIN data THEN data[k] ELSE expire \div 1000]]

\* create_access_token(data, expires_delta) called at time t. `if
\* expires_delta:` takes the default branch for None and for a zero timedelta;
\* update() replaces an exp the caller passed; jwt.encode writes exp as whole
\* seconds (timegm of the time tuple, the sub-second part dropped).
create_access_token(data, expires_delta, t) ==
    LET expire == IF expires_delta # NoDelta /\ expires_delta[1] # 0
                  THEN t + expires_delta[1]
                  ELSE t + Seconds(ACCESS_TOKEN_EXPIRE_MINUTES * 60)
    IN [form |-> "jws", key |-> JWT_SECRET_KEY,
        payload |-> [k \in DOMAIN data \cup {"exp"} |->
                        IF k = "exp" THEN expire \div 1000 ELSE data[k]]]

\* decode_access_token still accepting at the instant exp.
decode_access_token_AtExp(token, t) ==
    IF token.form # "jws" THEN <<>>
    ELSE IF token.key # JWT_SECRET_KEY THEN <<>>
    ELSE IF "exp" \in DOMAIN token.payload /\ Seconds(token.payload.exp) < t THEN <<>>
    ELSE <<token.payload>>

\* decode_access_token(token) called at time t: <<>> for None, <<payload>> for
\* the payload. jwt.decode raises, and the except clause answers None, for a
\* string that is no JWS, a signature that is not the key's over this payload
\* and an exp at or before now.
decode_access_token(token, t) ==
    IF token.form # "jws" THEN <<>>
    ELSE IF token.key # JWT_SECRET_KEY THEN <<>>
    ELSE IF "exp" \in DOMAIN token.payload /\ Seconds(token.payload.exp) <= t THEN <<>>
    ELSE <<token.payload>>

(* ------------------------------- state -------------------------------- *)
VARIABLES
    users,      \* the users table: id -> row, for the ids that have a row
    nextId,     \* ids handed out so far (a uuid is never handed out twice)
    now,        \* Unix time in seconds
    issued,     \* the credential each client holds: the one its last login returned
    reqs,       \* slot -> the request in flight there
    convs,      \* the conversations table with each row's messages: id -> row
    nextConv,   \* conversation ids handed out so far
    creqs,      \* slot -> the chat request in flight there
    offered     \* the secrets setup is on record to have returned, each with the user's id

vars == <<users, nextId, now, issued, reqs, convs, nextConv, creqs, offered>>

NoHash == [salt |-> "", digest |-> <<"", "">>]
NoUser == [id |-> 0, email |-> "", username |-> "", hashed_password |-> NoHash,
           totp_secret |-> NoSecret, is_active |-> FALSE]

NoResp == [status |-> 0, detail |-> "", access_token |-> NoToken,
           secret |-> NoSecret, flag |-> FALSE]

HTTPException(status, detail) == [NoResp EXCEPT !.status = status, !.detail = detail]

Idle == [op |-> "idle", pc |-> "idle", email |-> "", username |-> "",
         password |-> DummyPassword, totp_code |-> <<>>, secret |-> NoSecret,
         token |-> NoToken, user |-> NoUser, assigned |-> <<>>,
         resp |-> NoResp, pending |-> NoResp,
         ops |-> <<>>, reads |-> 0, writes |-> 0, at |-> 0,
         data |-> NoClaims, delta |-> NoDelta, ms |-> 0, result |-> <<>>,
         after |-> [op |-> "idle", status |-> 0, detail |-> "", code |-> <<>>]]

\* What a client remembers of its previous request when it sends the next.
Summary(q) == [op |-> q.op, status |-> q.resp.status, detail |-> q.resp.detail,
               code |-> q.totp_code]

\* select(User).where(User.email == email) ... scalar_one_or_none()
ByEmail(email) ==
    IF \E u \in DOMAIN users : users[u].email = email
    THEN users[CHOOSE u \in DOMAIN users : users[u].email = email]
    ELSE NoUser

ByUsername(username) ==
    IF \E u \in DOMAIN users : users[u].username = username
    THEN users[CHOOSE u \in DOMAIN users : users[u].username = username]
    ELSE NoUser

ById(id) == IF id \in DOMAIN users THEN users[id] ELSE NoUser

\* The row register commits for (email, username, password).
NewUser(id, email, username, hashed_password) ==
    [id |-> id, email |-> email, username |-> username,
     hashed_password |-> hashed_password, totp_secret |-> NoSecret, is_active |-> TRUE]

\* Conversation.title IS NULL
NoTitle == "null"

\* A chat request: the user the dependency returned (0 before it has), the
\* conversation of the path, the body's content and title, what the handler
\* loaded, the rows it flushed and has not committed, the response and the
\* rows the response shows.
NoCall == [op |-> "idle", pc |-> "idle", token |-> NoToken, user |-> 0, conv |-> 0,
           content |-> "", title |-> NoTitle, loaded |-> <<>>, tx |-> <<>>,
           resp |-> NoResp, view |-> {}]

\* No conversation yet, no chat request in flight, no setup on record.
NoChat ==
    /\ convs = << >>
    /\ nextConv = 0
    /\ creqs = [r \in Slots |-> NoCall]
    /\ offered = {}

\* An empty table: the state the registration endpoint starts from.
RegInit ==
    /\ users = << >>
    /\ nextId = 0
    /\ now = TOTP_INTERVAL
    /\ issued = {}
    /\ reqs = [r \in Slots |-> Idle]
    /\ NoChat

\* The table after one registration (a@x / alice / Pw1), nothing in flight.
\* A slot takes a request when it holds none or the one it held has ended.
Free(r) == reqs[r].pc \in {"idle", "done", "cancelled"}

Init ==
    /\ users = (1 :> NewUser(1, "a@x", "alice", HashWith(<<"Pw1", "">>, "saltA")))
    /\ nextId = 1
    /\ now = TOTP_INTERVAL
    /\ issued = {}
    /\ reqs = [r \in Slots |-> Idle]
    /\ NoChat

(* ------------------------------ register ------------------------------ *)
\* register, up to the first store read (the email check).
RegisterCheckEmail(r, email, username, password) ==
    /\ Free(r)
    /\ LET q == [Idle EXCEPT !.op = "register", !.after = Summary(reqs[r]), !.email = email,
                             !.username = username, !.password = password,
                             !.reads = 1]
       IN reqs' = [reqs EXCEPT ![r] =
            IF ByEmail(email) # NoUser
            THEN [q EXCEPT !.pc = "done",
                           !.resp = HTTPException(400, "Email already registered")]
            ELSE [q EXCEPT !.pc = "check_username"]]
    /\ UNCHANGED <<offered, convs, nextConv, creqs, users, nextId, now, issued>>

\* register without its username check.
RegisterCheckUsername_NoCheck(r) ==
    /\ reqs[r].op = "register" /\ reqs[r].pc = "check_username"
    /\ reqs' = [reqs EXCEPT ![r] = [reqs[r] EXCEPT !.pc = "commit", !.reads = @ + 1]]
    /\ UNCHANGED <<offered, convs, nextConv, creqs, users, nextId, now, issued>>

\* register, its second store read (the username check).
RegisterCheckUsername(r) ==
    /\ reqs[r].op = "register" /\ reqs[r].pc = "check_username"
    /\ reqs' = [reqs EXCEPT ![r] =
            IF ByUsername(reqs[r].username) # NoUser
            THEN [reqs[r] EXCEPT !.pc = "done", !.reads = @ + 1,
                           !.resp = HTTPException(400, "Username already taken")]
            ELSE [reqs[r] EXCEPT !.pc = "commit", !.reads = @ + 1]]
    /\ UNCHANGED <<offered, convs, nextConv, creqs, users, nextId, now, issued>>

\* db.add(user); await db.commit(): the INSERT meets the unique indexes.
RegisterCommit(r) ==
    /\ reqs[r].op = "register" /\ reqs[r].pc = "commit"
    /\ IF ByEmail(reqs[r].email) # NoUser \/ ByUsername(reqs[r].username) # NoUser
       THEN /\ reqs' = [reqs EXCEPT ![r] =
                   [reqs[r] EXCEPT !.pc = "done", !.ops = <<"get_password_hash">>,
                                   !.resp = HTTPException(500, "IntegrityError")]]
            /\ UNCHANGED <<offered, convs, nextConv, creqs, users, nextId>>
       ELSE /\ nextId < MaxUsers
            /\ \E h \in PasswordHashes(reqs[r].password) :
                 LET row == NewUser(nextId + 1, reqs[r].email, reqs[r].username, h)
                 IN /\ users' = (nextId + 1 :> row) @@ users
                    /\ reqs' = [reqs EXCEPT ![r] =
                         [reqs[r] EXCEPT !.pc = "done", !.user = row,
                                         !.ops = <<"get_password_hash", "commit">>,
                                         !.writes = 1,
                                         !.resp = [NoResp EXCEPT !.status = 201]]]
            /\ nextId' = nextId + 1
    /\ UNCHANGED <<offered, convs, nextConv, creqs, now, issued>>

(* -------------------------------- login ------------------------------- *)
\* login, up to and including its store read.
LoginRead(r, email, password, totp_code) ==
    /\ Free(r)
    /\ reqs' = [reqs EXCEPT ![r] =
            [Idle EXCEPT !.op = "login", !.pc = "handle", !.after = Summary(reqs[r]),
                         !.email = email,
                         !.password = password, !.totp_code = totp_code,
                         !.user = ByEmail(email), !.reads = 1]]
    /\ UNCHANGED <<offered, convs, nextConv, creqs, users, nextId, now, issued>>

\* The credential login returns for a user.
LoginToken(user, t) ==
    [NoResp EXCEPT !.status = 200,
       !.access_token = create_access_token([sub |-> user.id, email |-> user.email],
                            <<Seconds(ACCESS_TOKEN_EXPIRE_MINUTES * 60)>>, Seconds(t))]

\* login without the is_active check.
LoginRun_NoActiveCheck(user, password, totp_code, t) ==
    IF user = NoUser
    THEN [ops |-> <<"get_password_hash", "verify_password">>,
          resp |-> HTTPException(401, "Invalid email or password")]
    ELSE IF ~verify_password(password, user.hashed_password)
    THEN [ops |-> <<"verify_password">>,
          resp |-> HTTPException(401, "Invalid email or password")]
    ELSE IF user.totp_secret # NoSecret /\ totp_code = <<>>
    THEN [ops |-> <<"verify_password">>,
          resp |-> HTTPException(400, "TOTP code required. Two-factor authentication is enabled on this account.")]
    ELSE IF user.totp_secret # NoSecret /\ ~verify_totp(user.totp_secret, totp_code[1], t)
    THEN [ops |-> <<"verify_password", "verify_totp">>,
          resp |-> HTTPException(401, "Invalid TOTP code")]
    ELSE [ops |-> IF user.totp_secret # NoSecret
                  THEN <<"verify_password", "verify_totp", "create_access_token">>
                  ELSE <<"verify_password", "create_access_token">>,
          resp |-> LoginToken(user, t)]

\* login with the is_active check ahead of the password check.
LoginRun_ActiveFirst(user, password, totp_code, t) ==
    IF user # NoUser /\ ~user.is_active
    THEN [ops |-> <<>>, resp |-> HTTPException(401, "User account is inactive")]
    ELSE LoginRun_NoActiveCheck(user, password, totp_code, t)

\* login answering a wrong TOTP code with the password rejection.
LoginRun_GenericTotpFailure(user, password, totp_code, t) ==
    IF user # NoUser /\ verify_password(password, user.hashed_password) /\ user.is_active
       /\ user.totp_secret # NoSecret /\ totp_code # <<>>
       /\ ~verify_totp(user.totp_secret, totp_code[1], t)
    THEN [ops |-> <<"verify_password", "verify_totp">>,
          resp |-> HTTPException(401, "Invalid email or password")]
    ELSE IF user # NoUser /\ verify_password(password, user.hashed_password) /\ ~user.is_active
    THEN [ops |-> <<"verify_password">>,
          resp |-> HTTPException(401, "User account is inactive")]
    ELSE LoginRun_NoActiveCheck(user, password, totp_code, t)

\* login with the TOTP block ahead of the is_active check.
LoginRun_TotpFirst(user, password, totp_code, t) ==
    IF user # NoUser /\ verify_password(password, user.hashed_password) /\ ~user.is_active
       /\ ~(user.totp_secret # NoSecret /\ totp_code = <<>>)
       /\ ~(user.totp_secret # NoSecret /\ ~verify_totp(user.totp_secret, totp_code[1], t))
    THEN [ops |-> IF user.totp_secret # NoSecret
                  THEN <<"verify_password", "verify_totp">> ELSE <<"verify_password">>,
          resp |-> HTTPException(401, "User account is inactive")]
    ELSE LoginRun_NoActiveCheck(user, password, totp_code, t)

\* login treating a missing code as a wrong one.
LoginRun_NoTotpRequired(user, password, totp_code, t) ==
    IF user # NoUser /\ verify_password(password, user.hashed_password)
       /\ ~user.is_active
    THEN [ops |-> <<"verify_password">>,
          resp |-> HTTPException(401, "User account is inactive")]
    ELSE IF user # NoUser /\ verify_password(password, user.hashed_password)
       /\ user.totp_secret # NoSecret /\ totp_code = <<>>
    THEN [ops |-> <<"verify_password", "verify_totp">>,
          resp |-> HTTPException(401, "Invalid TOTP code")]
    ELSE LoginRun_NoActiveCheck(user, password, totp_code, t)

\* What login does with the row it read: the calls it makes, in order, and
\* the response it ends with.
LoginRun(user, password, totp_code, t) ==
    IF user = NoUser
    THEN [ops |-> <<"get_password_hash", "verify_password">>,
          resp |-> HTTPException(401, "Invalid email or password")]
    ELSE IF ~verify_password(password, user.hashed_password)
    THEN [ops |-> <<"verify_password">>,
          resp |-> HTTPException(401, "Invalid email or password")]
    ELSE IF ~user.is_active
    THEN [ops |-> <<"verify_password">>,
          resp |-> HTTPException(401, "User account is inactive")]
    ELSE IF user.totp_secret # NoSecret /\ totp_code = <<>>
    THEN [ops |-> <<"verify_password">>,
          resp |-> HTTPException(400, "TOTP code required. Two-factor authentication is enabled on this account.")]
    ELSE IF user.totp_secret # NoSecret /\ ~verify_totp(user.totp_secret, totp_code[1], t)
    THEN [ops |-> <<"verify_password", "verify_totp">>,
          resp |-> HTTPException(401, "Invalid TOTP code")]
    ELSE [ops |-> IF user.totp_secret # NoSecret
                  THEN <<"verify_password", "verify_totp", "create_access_token">>
                  ELSE <<"verify_password", "create_access_token">>,
          resp |-> LoginToken(user, t)]

\* login locking the account after a wrong TOTP code.
LoginHandle_LockOnWrongCode(r) ==
    /\ reqs[r].op = "login" /\ reqs[r].pc = "handle"
    /\ LET q == reqs[r]
           run == LoginRun(q.user, q.password, q.totp_code, now)
       IN /\ reqs' = [reqs EXCEPT ![r] =
                [q EXCEPT !.pc = "done", !.at = now, !.resp = run.resp, !.ops = run.ops]]
          /\ issued' = IF run.resp.status = 200
                       THEN {k \in issued : k.payload.sub # q.user.id} \cup {run.resp.access_token}
                       ELSE issued
          /\ users' = IF run.resp = HTTPException(401, "Invalid TOTP code")
                      THEN [users EXCEPT ![q.user.id].is_active = FALSE]
                      ELSE users
    /\ UNCHANGED <<offered, convs, nextConv, creqs, nextId, now>>

\* login from the row it read to its response.
LoginHandle(r) ==
    /\ reqs[r].op = "login" /\ reqs[r].pc = "handle"
    /\ LET q == reqs[r]
           run == LoginRun(q.user, q.password, q.totp_code, now)
       IN /\ reqs' = [reqs EXCEPT ![r] =
                [q EXCEPT !.pc = "done", !.at = now, !.resp = run.resp, !.ops = run.ops]]
          /\ issued' = IF run.resp.status = 200
                       THEN {k \in issued : k.payload.sub # q.user.id} \cup {run.resp.access_token}
                       ELSE issued
    /\ UNCHANGED <<offered, convs, nextConv, creqs, users, nextId, now>>

(* ----------------------- authenticated endpoints ---------------------- *)
AuthOps == {"setup", "enable", "disable", "verify", "me"}

\* get_current_user_dep up to its store read: the user id it looks up, <<>>
\* when it raises before (decode answered None, or the payload has no sub).
AuthSubject(token, t) ==
    LET payload == decode_access_token(token, Seconds(t))
    IN IF payload = <<>> THEN <<>>
       ELSE IF "sub" \notin DOMAIN payload[1] THEN <<>>
       ELSE <<payload[1].sub>>

\* get_current_user_dep telling an expired credential from a malformed one.
AuthFailure_TellExpired(token, t) ==
    IF token.form = "jws" /\ token.key = JWT_SECRET_KEY
       /\ decode_access_token(token, Seconds(t)) = <<>>
    THEN HTTPException(401, "Token has expired")
    ELSE IF AuthSubject(token, t) = <<>>
    THEN HTTPException(401, "Could not validate credentials")
    ELSE IF ById(AuthSubject(token, t)[1]) = NoUser
    THEN HTTPException(401, "User not found")
    ELSE IF ~ById(AuthSubject(token, t)[1]).is_active
    THEN HTTPException(401, "Inactive user")
    ELSE NoResp

\* get_current_user_dep without the is_active check.
AuthFailure_IgnoreInactive(token, t) ==
    IF AuthSubject(token, t) = <<>>
    THEN HTTPException(401, "Could not validate credentials")
    ELSE IF ById(AuthSubject(token, t)[1]) = NoUser
    THEN HTTPException(401, "User not found")
    ELSE NoResp

\* get_current_user_dep: the 401 it raises, or NoResp when it returns the user.
AuthFailure(token, t) ==
    IF AuthSubject(token, t) = <<>>
    THEN HTTPException(401, "Could not validate credentials")
    ELSE IF ById(AuthSubject(token, t)[1]) = NoUser
    THEN HTTPException(401, "User not found")
    ELSE IF ~ById(AuthSubject(token, t)[1]).is_active
    THEN HTTPException(401, "Inactive user")
    ELSE NoResp

\* An authenticated request, up to and including the dependency's store read.
AuthRead(r, op, token, secret, code) ==
    /\ Free(r)
    /\ LET q == [Idle EXCEPT !.op = op, !.after = Summary(reqs[r]),
                             !.token = token, !.secret = secret,
                             !.totp_code = code,
                             !.reads = IF AuthSubject(token, now) # <<>> THEN 1 ELSE 0]
       IN reqs' = [reqs EXCEPT ![r] =
            IF AuthFailure(token, now) # NoResp
            THEN [q EXCEPT !.pc = "done", !.at = now, !.resp = AuthFailure(token, now)]
            ELSE [q EXCEPT !.pc = "handle", !.user = ById(AuthSubject(token, now)[1])]]
    /\ UNCHANGED <<offered, convs, nextConv, creqs, users, nextId, now, issued>>

\* A handler's run from the user the dependency returned to its return or to
\* its await db.commit(): the calls it made, the value it assigned to
\* current_user.totp_secret before committing (<<>> when it assigned nothing)
\* and its response. In a request, user stays the row as the dependency read
\* it and assigned holds the assignment.
Ran(ops, write, resp) == [ops |-> ops, write |-> write, resp |-> resp]

\* setup_totp saving the secret it generated.
SetupRun_Persist(user, s) ==
    IF user.totp_secret # NoSecret
    THEN Ran(<<>>, <<>>,
             HTTPException(400, "TOTP is already enabled. Use /2fa/disable to disable first."))
    ELSE Ran(<<"generate_totp_secret">>, <<s>>,
             [NoResp EXCEPT !.status = 200, !.secret = s])

\* setup_totp; s is what generate_totp_secret() drew.
SetupRun(user, s) ==
    IF user.totp_secret # NoSecret
    THEN Ran(<<>>, <<>>,
             HTTPException(400, "TOTP is already enabled. Use /2fa/disable to disable first."))
    ELSE Ran(<<"generate_totp_secret">>, <<>>,
             [NoResp EXCEPT !.status = 200, !.secret = s])

\* enable_totp saving the secret whatever the code.
EnableRun_NoVerify(user, secret, code, t) ==
    IF user.totp_secret # NoSecret
    THEN Ran(<<>>, <<>>, HTTPException(400, "TOTP is already enabled"))
    ELSE Ran(<<"verify_totp_ok">>, <<secret>>,
             [NoResp EXCEPT !.status = 200, !.flag = TRUE,
                !.detail = "Two-factor authentication enabled successfully"])

\* enable_totp assigning the secret before it verifies the code.
EnableRun_WriteFirst(user, secret, code, t) ==
    IF user.totp_secret # NoSecret
    THEN Ran(<<>>, <<>>, HTTPException(400, "TOTP is already enabled"))
    ELSE IF ~verify_totp(secret, code, t)
    THEN Ran(<<"verify_totp_fail">>, <<secret>>,
             HTTPException(400, "Invalid TOTP code. Please try again."))
    ELSE Ran(<<"verify_totp_ok">>, <<secret>>,
             [NoResp EXCEPT !.status = 200, !.flag = TRUE,
                !.detail = "Two-factor authentication enabled successfully"])

\* enable_totp
EnableRun(user, secret, code, t) ==
    IF user.totp_secret # NoSecret
    THEN Ran(<<>>, <<>>, HTTPException(400, "TOTP is already enabled"))
    ELSE IF ~verify_totp(secret, code, t)
    THEN Ran(<<"verify_totp_fail">>, <<>>,
             HTTPException(400, "Invalid TOTP code. Please try again."))
    ELSE Ran(<<"verify_totp_ok">>, <<secret>>,
             [NoResp EXCEPT !.status = 200, !.flag = TRUE,
                !.detail = "Two-factor authentication enabled successfully"])

\* disable_totp clearing the secret also when the code is wrong.
DisableRun_ClearOnFail(user, code, t) ==
    IF user.totp_secret = NoSecret
    THEN Ran(<<>>, <<>>, HTTPException(400, "TOTP is not enabled for this account"))
    ELSE IF ~verify_totp(user.totp_secret, code, t)
    THEN Ran(<<"verify_totp_fail">>, <<NoSecret>>, HTTPException(401, "Invalid TOTP code"))
    ELSE Ran(<<"verify_totp_ok">>, <<NoSecret>>,
             [NoResp EXCEPT !.status = 200, !.flag = FALSE,
                !.detail = "Two-factor authentication disabled successfully"])

\* disable_totp
DisableRun(user, code, t) ==
    IF user.totp_secret = NoSecret
    THEN Ran(<<>>, <<>>, HTTPException(400, "TOTP is not enabled for this account"))
    ELSE IF ~verify_totp(user.totp_secret, code, t)
    THEN Ran(<<"verify_totp_fail">>, <<>>, HTTPException(401, "Invalid TOTP code"))
    ELSE Ran(<<"verify_totp_ok">>, <<NoSecret>>,
             [NoResp EXCEPT !.status = 200, !.flag = FALSE,
                !.detail = "Two-factor authentication disabled successfully"])

\* verify_totp_endpoint refusing a user without a secret, as disable_totp does.
VerifyRun_RejectNotEnrolled(user, code, t) ==
    IF user.totp_secret = NoSecret
    THEN Ran(<<>>, <<>>, HTTPException(400, "TOTP is not enabled for this account"))
    ELSE IF verify_totp(user.totp_secret, code, t)
    THEN Ran(<<"verify_totp_ok">>, <<>>, [NoResp EXCEPT !.status = 200, !.flag = TRUE,
                            !.detail = "TOTP code verified successfully"])
    ELSE Ran(<<"verify_totp_fail">>, <<>>, [NoResp EXCEPT !.status = 200, !.flag = FALSE,
                            !.detail = "Invalid TOTP code"])

\* verify_totp_endpoint
VerifyRun(user, code, t) ==
    IF user.totp_secret = NoSecret
    THEN Ran(<<>>, <<>>, [NoResp EXCEPT !.status = 200, !.flag = FALSE,
                            !.detail = "TOTP is not enabled for this account"])
    ELSE IF verify_totp(user.totp_secret, code, t)
    THEN Ran(<<"verify_totp_ok">>, <<>>, [NoResp EXCEPT !.status = 200, !.flag = TRUE,
                            !.detail = "TOTP code verified successfully"])
    ELSE Ran(<<"verify_totp_fail">>, <<>>, [NoResp EXCEPT !.status = 200, !.flag = FALSE,
                            !.detail = "Invalid TOTP code"])

\* get_me reporting totp_enabled from is_active.
MeRun_EnabledFromActive(user) ==
    Ran(<<>>, <<>>, [NoResp EXCEPT !.status = 200, !.detail = user.email,
                                 !.flag = user.is_active])

\* get_me: UserResponse.from_user(current_user); flag is totp_enabled.
MeRun(user) ==
    Ran(<<>>, <<>>, [NoResp EXCEPT !.status = 200, !.detail = user.email,
                                 !.flag = user.totp_secret # NoSecret])

\* The handler of request r runs as `run` says: it returns, or it assigns
\* current_user.totp_secret and suspends in db.commit().
Handled(r, run) ==
    /\ reqs[r].pc = "handle"
    /\ reqs' = [reqs EXCEPT ![r] =
            IF run.write = <<>>
            THEN [reqs[r] EXCEPT !.pc = "done", !.at = now, !.ops = run.ops,
                                 !.resp = run.resp]
            ELSE [reqs[r] EXCEPT !.pc = "commit", !.at = now, !.ops = run.ops,
                                 !.assigned = run.write, !.pending = run.resp]]
    /\ UNCHANGED <<convs, nextConv, creqs, users, nextId, now, issued>>

SetupHandle(r) ==
    /\ reqs[r].op = "setup"
    /\ \E s \in ValidSecrets : Handled(r, SetupRun(reqs[r].user, s))
    /\ UNCHANGED offered

\* setup_totp, the secret it returns put on record.
SetupNoted(r) ==
    /\ reqs[r].op = "setup"
    /\ \E s \in ValidSecrets :
         /\ Handled(r, SetupRun(reqs[r].user, s))
         /\ offered' = IF SetupRun(reqs[r].user, s).resp.status = 200
                       THEN offered \cup {<<reqs[r].user.id, s>>}
                       ELSE offered

EnableHandle(r) ==
    /\ reqs[r].op = "enable"
    /\ Handled(r, EnableRun(reqs[r].user, reqs[r].secret, reqs[r].totp_code[1], now))
    /\ UNCHANGED offered

DisableHandle(r) ==
    /\ reqs[r].op = "disable"
    /\ Handled(r, DisableRun(reqs[r].user, reqs[r].totp_code[1], now))
    /\ UNCHANGED offered

VerifyHandle(r) ==
    /\ reqs[r].op = "verify"
    /\ Handled(r, VerifyRun(reqs[r].user, reqs[r].totp_code[1], now))
    /\ UNCHANGED offered

MeHandle(r) ==
    /\ reqs[r].op = "me"
    /\ Handled(r, MeRun(reqs[r].user))
    /\ UNCHANGED offered

\* await db.commit() after the assignment: the UPDATE of that one column on
\* the row with the user's id, then the handler's return.
TotpCommit(r) ==
    /\ reqs[r].op \in AuthOps /\ reqs[r].pc = "commit"
    /\ LET q == reqs[r] IN
       IF q.user.id \in DOMAIN users
       THEN /\ users' = [users EXCEPT ![q.user.id].totp_secret = q.assigned[1]]
            /\ reqs' = [reqs EXCEPT ![r] =
                 [q EXCEPT !.pc = "done", !.ops = Append(@, "commit"), !.writes = @ + 1,
                           !.resp = q.pending, !.pending = NoResp]]
       ELSE /\ users' = users
            /\ reqs' = [reqs EXCEPT ![r] =
                 [q EXCEPT !.pc = "done", !.pending = NoResp,
                           !.resp = HTTPException(500, "StaleDataError")]]
    /\ UNCHANGED <<offered, convs, nextConv, creqs, nextId, now, issued>>

(* ----------------------------- environment ---------------------------- *)
\* The request is cancelled while suspended: the handler never resumes.
Cancel(r) ==
    /\ reqs[r].pc \in {"check_username", "handle", "commit"}
    /\ reqs' = [reqs EXCEPT ![r] =
            [Idle EXCEPT !.op = reqs[r].op, !.pc = "cancelled", !.user = reqs[r].user,
                         !.ops = reqs[r].ops, !.writes = reqs[r].writes]]
    /\ UNCHANGED <<offered, convs, nextConv, creqs, users, nextId, now, issued>>

\* The request is cancelled while it waits for the reply to its COMMIT and
\* the database has carried the COMMIT out: the UPDATE is in the table, the
\* handler never resumes.
CancelInCommit(r) ==
    /\ reqs[r].op \in AuthOps /\ reqs[r].pc = "commit"
    /\ reqs[r].user.id \in DOMAIN users
    /\ users' = [users EXCEPT ![reqs[r].user.id].totp_secret = reqs[r].assigned[1]]
    /\ reqs' = [reqs EXCEPT ![r] =
            [reqs[r] EXCEPT !.pc = "cancelled", !.ops = Append(@, "commit"),
                            !.writes = @ + 1, !.pending = NoResp]]
    /\ UNCHANGED <<offered, convs, nextConv, creqs, nextId, now, issued>>

\* An operator clears is_active in the table (no endpoint does).
Deactivate(u) ==
    /\ u \in DOMAIN users /\ users[u].is_active
    /\ users' = [users EXCEPT ![u].is_active = FALSE]
    /\ UNCHANGED <<offered, convs, nextConv, creqs, nextId, now, issued, reqs>>

\* An operator deletes the row (no endpoint does); the user's conversations
\* go with it (ondelete="CASCADE").
Delete(u) ==
    /\ u \in DOMAIN users
    /\ users' = [x \in DOMAIN users \ {u} |-> users[x]]
    /\ convs' = [c \in {x \in DOMAIN convs : convs[x].user_id # u} |-> convs[c]]
    /\ UNCHANGED <<offered, nextConv, creqs, nextId, now, issued, reqs>>

Tick ==
    /\ now < TOTP_INTERVAL * (1 + MaxTicks)
    /\ now' = now + TOTP_INTERVAL
    /\ UNCHANGED <<offered, convs, nextConv, creqs, users, nextId, issued, reqs>>

\* Codes a client may type: what an authenticator shows now for a secret, or
\* "000000". The code ages while the request waits.
CodeChoices == {Hotp(s, TimeCode(now)) : s \in ValidSecrets} \cup {0}

LoginCodes == {<<>>} \cup {<<x>> : x \in CodeChoices \cup {MalformedCode}}

\* One client, one request at a time: every endpoint of the login and 2FA
\* flow with every input, the clock and the operator in between.
Next ==
    \/ \E e \in Emails, p \in Passwords, c \in LoginCodes : LoginRead(1, e, p, c)
    \/ LoginHandle(1)
    \/ \E tok \in issued : AuthRead(1, "setup", tok, NoSecret, <<>>)
    \/ \E tok \in issued, s \in ValidSecrets \cup {MalformedSecret}, c \in CodeChoices :
            AuthRead(1, "enable", tok, s, <<c>>)
    \/ \E tok \in issued, c \in CodeChoices : AuthRead(1, "disable", tok, NoSecret, <<c>>)
    \/ \E tok \in issued, c \in CodeChoices : AuthRead(1, "verify", tok, NoSecret, <<c>>)
    \/ \E tok \in issued : AuthRead(1, "me", tok, NoSecret, <<>>)
    \/ MeHandle(1)
    \/ SetupHandle(1)
    \/ EnableHandle(1)
    \/ DisableHandle(1)
    \/ TotpCommit(1)
    \/ VerifyHandle(1)
    \/ Cancel(1)
    \/ CancelInCommit(1)
    \/ \E u \in UserIds : Deactivate(u)
    \/ Tick

\* The registered user, enrolled or not, logged in at the start of the clock
\* and holds the credential; nothing is in flight.
ConcInit ==
    /\ \E s \in ValidSecrets \cup {NoSecret} :
         users = (1 :> [NewUser(1, "a@x", "alice", HashWith(<<"Pw1", "">>, "saltA"))
                           EXCEPT !.totp_secret = s])
    /\ nextId = 1
    /\ now = TOTP_INTERVAL
    /\ issued = {LoginToken(NewUser(1, "a@x", "alice", NoHash), TOTP_INTERVAL).access_token}
    /\ reqs = [r \in Slots |-> Idle]
    /\ NoChat

\* MaxReq 2FA requests of that user, one per slot, overlapping in any order,
\* each with a code an authenticator shows or "000000".
ConcNext ==
    \/ \E r \in Slots, tok \in issued, s \in ValidSecrets, c \in CodeChoices :
            reqs[r].pc = "idle" /\ AuthRead(r, "enable", tok, s, <<c>>)
    \/ \E r \in Slots, tok \in issued, c \in CodeChoices :
            reqs[r].pc = "idle" /\ AuthRead(r, "disable", tok, NoSecret, <<c>>)
    \/ \E r \in Slots, tok \in issued, c \in CodeChoices :
            reqs[r].pc = "idle" /\ AuthRead(r, "verify", tok, NoSecret, <<c>>)
    \/ \E r \in Slots : EnableHandle(r)
    \/ \E r \in Slots : DisableHandle(r)
    \/ \E r \in Slots : TotpCommit(r)
    \/ \E r \in Slots : VerifyHandle(r)
    \/ \E r \in Slots : Cancel(r)
    \/ \E r \in Slots : CancelInCommit(r)
    \/ Tick

ConcSpec == ConcInit /\ [][ConcNext]_vars

\* Registrations in any overlap: every email with every username, under a
\* password the schema admits (register does not look at it, it hashes it).
RegPasswords == {<<"Pw1", "">>}

RegNext ==
    \/ \E r \in Slots, e \in Emails, n \in Usernames, p \in RegPasswords :
            RegisterCheckEmail(r, e, n, p)
    \/ \E r \in Slots : RegisterCheckUsername(r)
    \/ \E r \in Slots : RegisterCommit(r)
    \/ \E r \in Slots : Cancel(r)

RegSpec == RegInit /\ [][RegNext]_vars

Spec == Init /\ [][Next]_vars

(* --------------------- the token codec on its own --------------------- *)
Lifetime == ACCESS_TOKEN_EXPIRE_MINUTES * 60

\* Claim sets handed to create_access_token: what login passes, the same
\* without a subject, with an exp of the caller's, and for an id with no row.
ClaimSets == {[sub |-> 1, email |-> "a@x"], [email |-> "a@x"],
              [sub |-> 1, exp |-> 9999], [sub |-> 2, email |-> "b@x"]}

\* expires_delta: absent, zero, one second ago, a second and a half, the
\* configured lifetime.
Deltas == {NoDelta, <<0>>, <<0 - 1000>>, <<1500>>, <<Seconds(Lifetime)>>}

\* The sub-second part of the clock at the moment of a call.
SubSeconds == {0, 500}

\* What a client may send as a credential: the one it holds, that one with
\* its signature or its payload altered, and a string that is no JWT.
Presented ==
    issued \cup {NoToken}
           \cup {[k EXCEPT !.key = OtherKey] : k \in issued}
           \cup {[k EXCEPT !.key = OtherKey, !.payload.exp = @ + Lifetime] : k \in issued}

\* create_access_token(data, expires_delta), the client keeping the result.
Issue(r, data, expires_delta, ms) ==
    /\ reqs[r].pc = "idle"
    /\ LET token == create_access_token(data, expires_delta, Seconds(now) + ms)
       IN /\ reqs' = [reqs EXCEPT ![r] =
                [Idle EXCEPT !.op = "issue", !.pc = "done",
                             !.data = data, !.delta = expires_delta, !.ms = ms,
                             !.at = now, !.ops = <<"create_access_token">>,
                             !.token = token]]
          /\ issued' = {token}
    /\ UNCHANGED <<offered, convs, nextConv, creqs, users, nextId, now>>

\* decode_access_token(token)
Decode(r, token, ms) ==
    /\ Free(r)
    /\ reqs' = [reqs EXCEPT ![r] =
            [Idle EXCEPT !.op = "decode", !.pc = "done",
                         !.token = token, !.ms = ms, !.at = now,
                         !.ops = <<"decode_access_token">>,
                         !.result = decode_access_token(token, Seconds(now) + ms)]]
    /\ UNCHANGED <<offered, convs, nextConv, creqs, users, nextId, now, issued>>

\* The credentials HTTPBearer(auto_error=False) hands over: none, or a token.
NoCredentials == << >>
Credentials == {NoCredentials} \cup {<<k>> : k \in Presented}

\* get_optional_user letting the dependency's HTTPException through.
get_optional_user_NoCatch(r, credentials) ==
    /\ Free(r)
    /\ LET q == [Idle EXCEPT !.op = "optional", !.pc = "done", !.at = now,
                             !.after = Summary(reqs[r])]
       IN reqs' = [reqs EXCEPT ![r] =
            IF credentials = NoCredentials THEN q
            ELSE LET token == credentials[1]
                     called == [q EXCEPT !.token = token,
                                         !.ops = <<"get_current_user_dep">>,
                                         !.reads = IF AuthSubject(token, now) # <<>>
                                                   THEN 1 ELSE 0]
                 IN IF AuthFailure(token, now) # NoResp
                    THEN [called EXCEPT !.resp = AuthFailure(token, now)]
                    ELSE [called EXCEPT !.user = ById(AuthSubject(token, now)[1])]]
    /\ UNCHANGED <<offered, convs, nextConv, creqs, users, nextId, now, issued>>

\* get_optional_user: user is what it returns, NoUser standing for None, and
\* resp the exception that leaves it, NoResp when none does.
get_optional_user(r, credentials) ==
    /\ Free(r)
    /\ LET q == [Idle EXCEPT !.op = "optional", !.pc = "done", !.at = now,
                             !.after = Summary(reqs[r])]
       IN reqs' = [reqs EXCEPT ![r] =
            IF credentials = NoCredentials THEN q
            ELSE LET token == credentials[1]
                     called == [q EXCEPT !.token = token,
                                         !.ops = <<"get_current_user_dep">>,
                                         !.reads = IF AuthSubject(token, now) # <<>>
                                                   THEN 1 ELSE 0]
                 IN IF AuthFailure(token, now) # NoResp
                    THEN called
                    ELSE [called EXCEPT !.user = ById(AuthSubject(token, now)[1])]]
    /\ UNCHANGED <<offered, convs, nextConv, creqs, users, nextId, now, issued>>

\* The clock, second by second around the start and around the lifetime.
CodecTick ==
    /\ now < TOTP_INTERVAL + Lifetime + MaxSecs
    /\ now - TOTP_INTERVAL < MaxSecs \/ now - TOTP_INTERVAL >= Lifetime - 1
    /\ now' = now + 1
    /\ UNCHANGED <<offered, convs, nextConv, creqs, users, nextId, issued, reqs>>

\* One second short of the configured lifetime passes.
CodecSleep ==
    /\ now - TOTP_INTERVAL <= MaxSecs
    /\ now' = now + Lifetime - 1
    /\ UNCHANGED <<offered, convs, nextConv, creqs, users, nextId, issued, reqs>>

\* Slot 1 is the one issuing call, slot 2 the client's requests and the decode
\* calls that follow one another.
CodecNext ==
    \/ \E d \in ClaimSets, e \in Deltas, ms \in SubSeconds : Issue(1, d, e, ms)
    \/ \E tok \in Presented, ms \in SubSeconds : Decode(2, tok, ms)
    \/ \E tok \in Presented : AuthRead(2, "me", tok, NoSecret, <<>>)
    \/ MeHandle(2)
    \/ \E u \in UserIds : Deactivate(u)
    \/ \E u \in UserIds : Delete(u)
    \/ CodecTick
    \/ CodecSleep

CodecSpec == Init /\ [][CodecNext]_vars

\* Slot 1 is the one issuing call, slot 2 the calls of get_optional_user that
\* follow one another while the clock runs and the row is deactivated or
\* deleted.
OptionalNext ==
    \/ \E d \in ClaimSets, e \in Deltas, ms \in SubSeconds : Issue(1, d, e, ms)
    \/ \E c \in Credentials : get_optional_user(2, c)
    \/ \E u \in UserIds : Deactivate(u)
    \/ \E u \in UserIds : Delete(u)
    \/ CodecTick
    \/ CodecSleep

OptionalSpec == Init /\ [][OptionalNext]_vars

TypeOK ==
    /\ nextId \in 0..MaxUsers
    /\ DOMAIN users \subseteq UserIds

(* ------------------- the two verifiers on their own ------------------- *)
\* Strings that are no bcrypt hash: "" and "not-a-valid-hash".
InvalidHashes == {NoHash, [salt |-> "not-a-valid-hash", digest |-> <<"", "">>]}

EmptyPassword == <<"", "">>

\* Passwords verify_password is called with: those of the login flow, the
\* empty one, and a second one that differs from another only after its
\* first BCRYPT_LIMIT bytes.
VerifyPasswords == Passwords \cup {EmptyPassword, <<"Pw1", "y">>}

\* Secrets verify_totp is called with: generated ones, one outside the
\* base-32 alphabet, the empty one and an over-long one.
VerifySecrets == ValidSecrets \cup {MalformedSecret, EmptySecret, LongSecret}

\* Codes verify_totp is called with: what an authenticator shows for a secret
\* at some step, "000000", and strings that are no six digits.
VerifyCodes ==
    {Hotp(s, k) : s \in Base32Secrets, k \in 0..(MaxHalfSteps \div 2 + 2)}
        \cup {0} \cup MalformedCodes

\* verify_totp(secret, token)
CallVerifyTotp(r, secret, code) ==
    /\ Free(r)
    /\ reqs' = [reqs EXCEPT ![r] =
            [Idle EXCEPT !.op = "verify_totp", !.pc = "done", !.secret = secret,
                         !.totp_code = <<code>>, !.at = now, !.ops = <<"verify_totp">>,
                         !.result = <<verify_totp(secret, code, now)>>]]
    /\ UNCHANGED <<offered, convs, nextConv, creqs, users, nextId, now, issued>>

\* verify_password(plain_password, hashed_password)
CallVerifyPassword(r, password, hashed_password) ==
    /\ Free(r)
    /\ reqs' = [reqs EXCEPT ![r] =
            [Idle EXCEPT !.op = "verify_password", !.pc = "done", !.password = password,
                         !.user = [NoUser EXCEPT !.hashed_password = hashed_password],
                         !.at = now, !.ops = <<"verify_password">>,
                         !.result = <<verify_password(password, hashed_password)>>]]
    /\ UNCHANGED <<offered, convs, nextConv, creqs, users, nextId, now, issued>>

\* Half a TOTP step passes.
HalfStep ==
    /\ now < TOTP_INTERVAL + MaxHalfSteps * (TOTP_INTERVAL \div 2)
    /\ now' = now + TOTP_INTERVAL \div 2
    /\ UNCHANGED <<offered, convs, nextConv, creqs, users, nextId, issued, reqs>>

VerifyNext ==
    \/ \E s \in VerifySecrets, c \in VerifyCodes : CallVerifyTotp(1, s, c)
    \/ \E p \in VerifyPasswords,
           h \in InvalidHashes \cup {HashWith(x, y) : x \in VerifyPasswords, y \in Salts} :
            CallVerifyPassword(1, p, h)
    \/ HalfStep

VerifySpec == Init /\ [][VerifyNext]_vars

(* -------------------------------- chat -------------------------------- *)
ConvIds == 1..MaxConvs

\* Message contents: a short one and one of TITLE_LIMIT + 1 characters.
LongContent == "51 characters"
Contents == {"hi", LongContent}
ContentLength(content) == IF content = LongContent THEN TITLE_LIMIT + 1 ELSE 2

\* data.content[:50] + "..." if len(data.content) > 50 else data.content
GeneratedTitle(content) ==
    IF ContentLength(content) > TITLE_LIMIT THEN "50 characters..." ELSE content

\* Titles a client sends: none, or one.
ConvTitles == {NoTitle, "plans"}

\* ai_response.message.content
Answer == "answer"

\* How client.chat ends: it returns, or raises one of its three errors, or
\* raises while it parses the reply (an exception create_message does not catch).
AiOutcomes == {"ok", "model_not_found", "timeout", "connection", "error"}

Msg(role, content) == [role |-> role, content |-> content]

\* What a response shows is kept as the ids of the conversations it shows
\* (or shows messages of).
NoView == {}

NotFound == HTTPException(404, "Conversation not found")

\* select(Conversation).where(id == conversation_id) without the user_id condition.
Owned_AnyOwner(c, uid) ==
    IF c \in DOMAIN convs THEN <<convs[c]>> ELSE <<>>

\* select(Conversation).where(Conversation.id == conversation_id,
\* Conversation.user_id == current_user.id) ... scalar_one_or_none(): <<>> for None.
Owned(c, uid) ==
    IF c \in DOMAIN convs /\ convs[c].user_id = uid THEN <<convs[c]>> ELSE <<>>

ChatFree(r) == creqs[r].pc \in {"idle", "done"}

\* A chat request after get_current_user_dep: ended with its 401, or running
\* for the user it returned.
Admit(op, token, c) ==
    LET q == [NoCall EXCEPT !.op = op, !.token = token, !.conv = c]
    IN IF AuthFailure(token, now) # NoResp
       THEN [q EXCEPT !.pc = "done", !.resp = AuthFailure(token, now)]
       ELSE [q EXCEPT !.pc = "run", !.user = AuthSubject(token, now)[1]]

Answered(q, status, view) ==
    [q EXCEPT !.pc = "done", !.resp = [NoResp EXCEPT !.status = status],
              !.view = view, !.tx = <<>>]

Raised(q, resp) == [q EXCEPT !.pc = "done", !.resp = resp, !.tx = <<>>]

\* GET /chat/conversations (skip = 0, limit = 20); the order of the rows is
\* left out.
list_conversations(r, token) ==
    /\ ChatFree(r)
    /\ LET q == Admit("list_conversations", token, 0)
       IN creqs' = [creqs EXCEPT ![r] =
            IF q.pc = "done" THEN q
            ELSE Answered(q, 200, {c \in DOMAIN convs : convs[c].user_id = q.user})]
    /\ UNCHANGED <<offered, users, nextId, now, issued, reqs, convs, nextConv>>

\* POST /chat/conversations
create_conversation(r, token, title) ==
    /\ ChatFree(r)
    /\ nextConv < MaxConvs
    /\ LET q == [Admit("create_conversation", token, 0) EXCEPT !.title = title]
           id == nextConv + 1
       IN IF q.pc = "done"
          THEN /\ creqs' = [creqs EXCEPT ![r] = q]
               /\ UNCHANGED <<offered, convs, nextConv>>
          ELSE /\ convs' = (id :> [id |-> id, user_id |-> q.user, title |-> title,
                                   messages |-> <<>>]) @@ convs
               /\ nextConv' = id
               /\ creqs' = [creqs EXCEPT ![r] =
                    Answered([q EXCEPT !.conv = id], 201, {id})]
    /\ UNCHANGED <<offered, users, nextId, now, issued, reqs>>

\* GET /chat/conversations/{conversation_id}
get_conversation(r, token, c) ==
    /\ ChatFree(r)
    /\ LET q == Admit("get_conversation", token, c)
       IN creqs' = [creqs EXCEPT ![r] =
            IF q.pc = "done" THEN q
            ELSE IF Owned(c, q.user) = <<>> THEN Raised(q, NotFound)
            ELSE Answered(q, 200, {Owned(c, q.user)[1].id})]
    /\ UNCHANGED <<offered, users, nextId, now, issued, reqs, convs, nextConv>>

\* PATCH /chat/conversations/{conversation_id}
update_conversation(r, token, c, title) ==
    /\ ChatFree(r)
    /\ LET q == [Admit("update_conversation", token, c) EXCEPT !.title = title]
       IN IF q.pc = "done"
          THEN creqs' = [creqs EXCEPT ![r] = q] /\ convs' = convs
          ELSE IF Owned(c, q.user) = <<>>
          THEN creqs' = [creqs EXCEPT ![r] = Raised(q, NotFound)] /\ convs' = convs
          ELSE /\ convs' = IF title # NoTitle THEN [convs EXCEPT ![c].title = title]
                           ELSE convs
               /\ creqs' = [creqs EXCEPT ![r] =
                    Answered(q, 200, {c})]
    /\ UNCHANGED <<offered, users, nextId, now, issued, reqs, nextConv>>

\* DELETE /chat/conversations/{conversation_id}: the row goes with its
\* messages (cascade="all, delete-orphan"). The DELETE waits for a
\* transaction that holds a flushed message of the conversation.
delete_conversation(r, token, c) ==
    /\ ChatFree(r)
    /\ LET q == Admit("delete_conversation", token, c)
       IN IF q.pc = "done"
          THEN creqs' = [creqs EXCEPT ![r] = q] /\ convs' = convs
          ELSE IF Owned(c, q.user) = <<>>
          THEN creqs' = [creqs EXCEPT ![r] = Raised(q, NotFound)] /\ convs' = convs
          ELSE /\ \A x \in Slots : ~(creqs[x].pc = "ai" /\ creqs[x].conv = c)
               /\ convs' = [x \in DOMAIN convs \ {c} |-> convs[x]]
               /\ creqs' = [creqs EXCEPT ![r] = Answered(q, 204, NoView)]
    /\ UNCHANGED <<offered, users, nextId, now, issued, reqs, nextConv>>

\* GET /chat/conversations/{conversation_id}/messages (skip = 0, limit = 100)
list_messages(r, token, c) ==
    /\ ChatFree(r)
    /\ LET q == Admit("list_messages", token, c)
       IN creqs' = [creqs EXCEPT ![r] =
            IF q.pc = "done" THEN q
            ELSE IF Owned(c, q.user) = <<>> THEN Raised(q, NotFound)
            ELSE Answered(q, 200, {c})]
    /\ UNCHANGED <<offered, users, nextId, now, issued, reqs, convs, nextConv>>

\* POST /chat/conversations/{conversation_id}/messages up to `await
\* client.chat(...)`: the conversation is loaded with its messages, the user
\* message is added and flushed, not committed.
create_message(r, token, c, content) ==
    /\ ChatFree(r)
    /\ LET q == [Admit("create_message", token, c) EXCEPT !.content = content]
       IN IF q.pc = "done" THEN creqs' = [creqs EXCEPT ![r] = q]
          ELSE IF Owned(c, q.user) = <<>>
          THEN creqs' = [creqs EXCEPT ![r] = Raised(q, NotFound)]
          ELSE /\ Len(convs[c].messages) + 2 <= MaxMsgs
               /\ creqs' = [creqs EXCEPT ![r] =
                    [q EXCEPT !.pc = "ai", !.loaded = <<Owned(c, q.user)[1]>>,
                              !.tx = <<Msg("user", content)>>]]
    /\ UNCHANGED <<offered, users, nextId, now, issued, reqs, convs, nextConv>>

\* create_message committing the flushed user message when the AI call fails.
Committed_OnFailure(row, q, outcome) ==
    IF outcome # "ok" THEN [row EXCEPT !.messages = @ \o q.tx]
    ELSE [row EXCEPT
            !.messages = @ \o q.tx \o <<Msg("assistant", Answer)>>,
            !.title = IF q.loaded[1].title = NoTitle /\ Len(q.loaded[1].messages) <= 2
                      THEN GeneratedTitle(q.content) ELSE @]

\* The conversation row and its messages after create_message ends: on an
\* error `await db.rollback()` (or the session closing) drops the flushed
\* user message; on a reply the assistant message is added, the title is
\* assigned when the loaded conversation had none and at most two messages,
\* and one commit writes all of it.
Committed(row, q, outcome) ==
    IF outcome # "ok" THEN row
    ELSE [row EXCEPT
            !.messages = @ \o q.tx \o <<Msg("assistant", Answer)>>,
            !.title = IF q.loaded[1].title = NoTitle /\ Len(q.loaded[1].messages) <= 2
                      THEN GeneratedTitle(q.content) ELSE @]

\* The response of create_message for each way client.chat ends.
ChatReply(q, outcome) ==
    IF outcome = "ok"
    THEN Answered(q, 201, {q.conv})
    ELSE IF outcome = "model_not_found" THEN Raised(q, HTTPException(404, "Model 'gemma3:12b' not found"))
    ELSE IF outcome = "timeout" THEN Raised(q, HTTPException(504, "Chat request timed out after 120s"))
    ELSE IF outcome = "connection"
    THEN Raised(q, HTTPException(503, "Failed to connect to Ollama: Chat request failed"))
    ELSE Raised(q, HTTPException(500, "Internal Server Error"))

\* create_message from the return of client.chat to the handler's end.
create_message_reply(r, outcome) ==
    /\ creqs[r].op = "create_message" /\ creqs[r].pc = "ai"
    /\ LET q == creqs[r]
       IN /\ convs' = [convs EXCEPT ![q.conv] = Committed(@, q, outcome)]
          /\ creqs' = [creqs EXCEPT ![r] = ChatReply(q, outcome)]
    /\ UNCHANGED <<offered, users, nextId, now, issued, reqs, nextConv>>

\* Two registered users, each holding the credential of a login at the start
\* of the clock; no conversation yet.
ChatInit ==
    /\ users = (1 :> NewUser(1, "a@x", "alice", HashWith(<<"Pw1", "">>, "saltA")))
               @@ (2 :> NewUser(2, "b@x", "bob", HashWith(<<"Pw2", "">>, "saltB")))
    /\ nextId = 2
    /\ now = TOTP_INTERVAL
    /\ issued = {LoginToken(NewUser(u, IF u = 1 THEN "a@x" ELSE "b@x", "", NoHash),
                            TOTP_INTERVAL).access_token : u \in {1, 2}}
    /\ reqs = [r \in Slots |-> Idle]
    /\ NoChat

\* Chat requests of the two users one after another, on every conversation
\* id, with either user's credential or a string that is no JWT.
ChatNext ==
    \/ \E tok \in issued \cup {NoToken} : list_conversations(1, tok)
    \/ \E tok \in issued \cup {NoToken}, t \in ConvTitles : create_conversation(1, tok, t)
    \/ \E tok \in issued \cup {NoToken}, c \in ConvIds : get_conversation(1, tok, c)
    \/ \E tok \in issued \cup {NoToken}, c \in ConvIds, t \in ConvTitles :
            update_conversation(1, tok, c, t)
    \/ \E tok \in issued \cup {NoToken}, c \in ConvIds : delete_conversation(1, tok, c)
    \/ \E tok \in issued \cup {NoToken}, c \in ConvIds : list_messages(1, tok, c)
    \/ \E tok \in issued \cup {NoToken}, c \in ConvIds, x \in Contents :
            create_message(1, tok, c, x)
    \/ \E o \in AiOutcomes : create_message_reply(1, o)

ChatSpec == ChatInit /\ [][ChatNext]_vars

(* ----------------------- enrollment with a record --------------------- *)
\* The registered user, not enrolled, holds the credential of a login at the
\* start of the clock; setup has returned nothing yet.
EnrollInit ==
    /\ users = (1 :> NewUser(1, "a@x", "alice", HashWith(<<"Pw1", "">>, "saltA")))
    /\ nextId = 1
    /\ now = TOTP_INTERVAL
    /\ issued = {LoginToken(NewUser(1, "a@x", "alice", NoHash), TOTP_INTERVAL).access_token}
    /\ reqs = [r \in Slots |-> Idle]
    /\ NoChat

\* The user's setup, enable and disable requests one after another, every
\* secret setup returns being put on record; the client sends enable any
\* 32-character secret with a code an authenticator shows for a secret.
EnrollNext ==
    \/ \E tok \in issued : AuthRead(1, "setup", tok, NoSecret, <<>>)
    \/ \E tok \in issued, s \in ValidSecrets \cup {MalformedSecret}, c \in CodeChoices :
            AuthRead(1, "enable", tok, s, <<c>>)
    \/ \E tok \in issued, c \in CodeChoices : AuthRead(1, "disable", tok, NoSecret, <<c>>)
    \/ SetupNoted(1)
    \/ EnableHandle(1)
    \/ DisableHandle(1)
    \/ TotpCommit(1)
    \/ Tick

EnrollSpec == EnrollInit /\ [][EnrollNext]_vars

(* ======================= properties of the login flow ================= *)
Range(seq) == {seq[i] : i \in DOMAIN seq}

LoginDone(q) == q.op = "login" /\ q.pc = "done"
PasswordOk(q) == q.user # NoUser /\ verify_password(q.password, q.user.hashed_password)
CodeOk(q) == q.totp_code # <<>> /\ verify_totp(q.user.totp_secret, q.totp_code[1], q.at)
Enrolled(q) == q.user.totp_secret # NoSecret

\* The outcomes of section 4.4 as the responses that carry them.
InvalidCredentials == [NoResp EXCEPT !.status = 401, !.detail = "Invalid email or password"]
AccountInactive == [NoResp EXCEPT !.status = 401, !.detail = "User account is inactive"]
TotpRequired == [NoResp EXCEPT !.status = 400,
    !.detail = "TOTP code required. Two-factor authentication is enabled on this account."]
InvalidTOTPCode == [NoResp EXCEPT !.status = 401, !.detail = "Invalid TOTP code"]

\* C1: a login issues a credential exactly when the row read for the email
\* exists, the password verifies against its hash, the row is active and it has
\* no TOTP secret or the supplied code verifies against the secret; the
\* credential names that row's id and email, the token codec is called in that
\* case only, and the row read is the table's row for the email.
C1_CredentialIffAllChecksPass ==
    \A r \in Slots : LET q == reqs[r] IN
        /\ (q.op = "login" /\ q.pc = "handle") =>
              IF ByEmail(q.email) = NoUser THEN q.user = NoUser
              ELSE /\ q.user.email = q.email
                   /\ q.user = [ByEmail(q.email) EXCEPT !.is_active = q.user.is_active]
        /\ LoginDone(q) =>
              LET ok == /\ PasswordOk(q) /\ q.user.email = q.email /\ q.user.is_active
                        /\ (~Enrolled(q) \/ CodeOk(q))
              IN /\ (q.resp.access_token # NoToken) <=> ok
                 /\ ("create_access_token" \in Range(q.ops)) <=> ok
                 /\ ok => /\ q.resp.status = 200
                          /\ q.resp.access_token.payload.sub = q.user.id
                          /\ q.resp.access_token.payload.email = q.user.email
                 /\ ~ok => q.resp.status \in {400, 401}

\* Scenario C and the ignored code: a credential issued to an enrolled user.
C1_Witness ==
    \E r \in Slots : LET q == reqs[r] IN
        /\ LoginDone(q) /\ q.resp.access_token # NoToken
        /\ Enrolled(q) /\ q.totp_code # <<>>

IsHashCall(x) == x \in {"get_password_hash", "verify_password"}

\* C2: every login makes exactly one hashing call, a verification, whether or
\* not the email matched a row (the dummy hash is a constant, not computed).
C2_OneVerificationNoOtherHashing ==
    \A r \in Slots :
        LoginDone(reqs[r]) => SelectSeq(reqs[r].ops, IsHashCall) = <<"verify_password">>

\* C3: an unknown email and a known email with a wrong password, whatever the
\* account's state, get the same response: 401 "Invalid email or password".
C3_UnknownEmailAndWrongPasswordAlike ==
    \A r \in Slots : LET q == reqs[r] IN
        (LoginDone(q) /\ ~PasswordOk(q)) =>
            /\ q.resp = InvalidCredentials
            /\ q.resp = LoginRun(NoUser, q.password, q.totp_code, q.at).resp

\* A wrong password on an inactive, enrolled account.
C3_Witness ==
    \E r \in Slots : LET q == reqs[r] IN
        /\ LoginDone(q) /\ q.user # NoUser /\ ~PasswordOk(q)
        /\ ~q.user.is_active /\ Enrolled(q)
        /\ q.resp = InvalidCredentials

\* C4 as claimed: every failed login other than TOTP-required answers as an
\* unregistered email would.
C4_AnyFailureLooksUnregistered ==
    \A r \in Slots : LET q == reqs[r] IN
        (LoginDone(q) /\ q.resp.status # 200 /\ q.resp # TotpRequired) =>
            q.resp = LoginRun(NoUser, q.password, q.totp_code, q.at).resp

\* C4 amended: a failed login answers as an unregistered email would exactly
\* when no row matched or the password did not verify; the failures after a
\* verified password have responses of their own.
C4_FailureLooksUnregisteredIffPasswordUnverified ==
    \A r \in Slots : LET q == reqs[r] IN
        (LoginDone(q) /\ q.resp.status # 200) =>
            ((q.resp = LoginRun(NoUser, q.password, q.totp_code, q.at).resp)
                <=> ~PasswordOk(q))

\* A wrong TOTP code after a verified password.
C4_Witness ==
    \E r \in Slots : LET q == reqs[r] IN
        /\ LoginDone(q) /\ PasswordOk(q) /\ q.user.is_active
        /\ q.resp = InvalidTOTPCode

\* C5: an inactive row with a wrong password gets InvalidCredentials; with the
\* right password it gets AccountInactive with no TOTP check made and no
\* credential; AccountInactive is given only after the password verified.
C5_InactiveOnlyAfterPassword ==
    \A r \in Slots : LET q == reqs[r] IN
        LoginDone(q) =>
            /\ (q.user # NoUser /\ ~q.user.is_active) =>
                  IF PasswordOk(q)
                  THEN /\ q.resp = AccountInactive
                       /\ q.ops = <<"verify_password">>
                       /\ q.resp.access_token = NoToken
                  ELSE q.resp = InvalidCredentials
            /\ q.resp = AccountInactive =>
                  /\ PasswordOk(q) /\ ~q.user.is_active
                  /\ q.ops # <<>> /\ q.ops[1] = "verify_password"

\* Inactive, enrolled, right password, a code supplied.
C5_Witness ==
    \E r \in Slots : LET q == reqs[r] IN
        /\ LoginDone(q) /\ q.resp = AccountInactive
        /\ Enrolled(q) /\ q.totp_code # <<>>

\* C6: active, enrolled, right password, no code: TotpRequired, which is not
\* the credentials rejection, and no credential; TotpRequired only then.
C6_TotpRequiredDistinct ==
    \A r \in Slots : LET q == reqs[r] IN
        LoginDone(q) =>
            /\ (PasswordOk(q) /\ q.user.is_active /\ Enrolled(q) /\ q.totp_code = <<>>) =>
                  /\ q.resp = TotpRequired
                  /\ q.resp # InvalidCredentials
                  /\ q.resp.access_token = NoToken
            /\ q.resp = TotpRequired =>
                  /\ PasswordOk(q) /\ q.user.is_active /\ Enrolled(q)
                  /\ q.totp_code = <<>>

C6_Witness ==
    \E r \in Slots : LoginDone(reqs[r]) /\ reqs[r].resp = TotpRequired

(* ===================== properties of the 2FA enrollment =============== *)
Finished(q, op) == q.op = op /\ q.pc = "done"

\* q is the request its client sent right after an `op` answered with resp.
Followed(q, op, resp) ==
    q.after.op = op /\ q.after.status = resp.status /\ q.after.detail = resp.detail
Persisted(q) == users[q.user.id].totp_secret

\* C7: setup never writes: it assigns nothing and commits nothing, the
\* persisted secret is still absent after it and for the request that follows;
\* on an enrolled user it is rejected and returns no secret.
C7_SetupNeverWrites ==
    \A r \in Slots : LET q == reqs[r] IN
        /\ q.op = "setup" => q.writes = 0 /\ q.assigned = <<>> /\ q.pc # "commit"
        /\ Finished(q, "setup") /\ q.user # NoUser =>
              IF Enrolled(q)
              THEN /\ q.resp.status = 400 /\ q.resp.secret = NoSecret
                   /\ Persisted(q) = q.user.totp_secret
              ELSE /\ q.resp.status = 200 /\ q.resp.secret \in ValidSecrets
                   /\ Persisted(q) = NoSecret
        /\ (q.after.op = "setup" /\ q.after.status = 200
            /\ q.op \in AuthOps /\ q.user # NoUser) => ~Enrolled(q)

\* Two successful setups in a row, the secret still absent.
C7_Witness ==
    \E r \in Slots : LET q == reqs[r] IN
        /\ Finished(q, "setup") /\ q.resp.status = 200
        /\ q.after.op = "setup" /\ q.after.status = 200
        /\ Persisted(q) = NoSecret

\* C8: enable on a user read without a secret persists exactly the supplied
\* secret when the code verifies against it, and otherwise answers 400 invalid
\* code and leaves the secret absent; on a user read with a secret it answers
\* 400 already enabled and leaves that secret.
C8_EnablePersistsOnlyOnProof ==
    \A r \in Slots : LET q == reqs[r] IN
        /\ (q.op = "enable" /\ q.pc = "commit") =>
              /\ ~Enrolled(q) /\ verify_totp(q.secret, q.totp_code[1], q.at)
              /\ q.assigned = <<q.secret>> /\ q.writes = 0
        /\ (Finished(q, "enable") /\ q.user # NoUser) =>
              IF Enrolled(q)
              THEN /\ q.resp = HTTPException(400, "TOTP is already enabled")
                   /\ q.writes = 0 /\ Persisted(q) = q.user.totp_secret
              ELSE IF verify_totp(q.secret, q.totp_code[1], q.at)
              THEN /\ q.resp.status = 200 /\ q.resp.flag
                   /\ q.writes = 1 /\ Persisted(q) = q.secret
              ELSE /\ q.resp = HTTPException(400, "Invalid TOTP code. Please try again.")
                   /\ q.writes = 0 /\ Persisted(q) = NoSecret

C8_Witness ==
    \E r \in Slots : LET q == reqs[r] IN
        /\ Finished(q, "enable") /\ q.resp.status = 200
        /\ q.secret = "SECRETB" /\ Persisted(q) = "SECRETB"

TotpWriters == {"enable", "disable"}

\* The code check the handler of q made, from q's own inputs.
ProofGiven(q) ==
    IF q.op = "enable"
    THEN verify_totp(q.secret, q.totp_code[1], q.at) /\ q.assigned = <<q.secret>>
    ELSE verify_totp(q.user.totp_secret, q.totp_code[1], q.at) /\ q.assigned = <<NoSecret>>

C9_WriteOrder ==
    \A r \in Slots : LET q == reqs[r] IN
        q.op \in TotpWriters =>
            /\ q.writes <= 1
            /\ q.writes = 1 => q.ops = <<"verify_totp_ok", "commit">> /\ ProofGiven(q)
            /\ q.pc = "commit" => q.ops = <<"verify_totp_ok">> /\ ProofGiven(q)
            /\ "verify_totp_fail" \in Range(q.ops) =>
                  q.writes = 0 /\ q.assigned = <<>> /\ q.pc # "commit"

C9_WriteStep ==
    /\ \A u \in DOMAIN users :
          (u \in DOMAIN users' /\ users'[u].totp_secret # users[u].totp_secret) =>
              \E r \in Slots :
                  /\ reqs[r].op \in TotpWriters /\ reqs[r].pc = "commit"
                  /\ reqs[r].user.id = u /\ ProofGiven(reqs[r])
                  /\ reqs[r].writes = 0 /\ reqs'[r].writes = 1
                  /\ users'[u].totp_secret = reqs[r].assigned[1]
    /\ \A r \in Slots :
          (reqs[r].pc # "handle" /\ reqs'[r].pc = "handle") =>
              reqs'[r].user \in {users[u] : u \in DOMAIN users} \cup {NoUser}

\* C9: in every enable or disable attempt the write comes after the attempt's
\* own successful code verification, at most once, and never after a failed
\* one; the persisted secret changes in no other step, and what any request
\* reads is a row as the table holds it, so no request sees a secret written
\* ahead of its proof.
C9_WriteOnlyAfterProof == [](C9_WriteOrder) /\ [][C9_WriteStep]_vars

\* A verify-only still in flight holds the row it read without a secret,
\* while the enable that overlapped it has proved, written and answered.
C9_Witness ==
    \E r1, r2 \in Slots :
        /\ Finished(reqs[r1], "enable") /\ reqs[r1].writes = 1
        /\ users[1].totp_secret = reqs[r1].secret
        /\ reqs[r2].op = "verify" /\ reqs[r2].pc = "handle" /\ ~Enrolled(reqs[r2])

\* C10: disable with a code that does not verify against the secret it read
\* answers 401 invalid code and leaves the secret, so that a verify-only sent
\* next with the current code of that secret answers verified; disable on a
\* user read without a secret answers 400 not enabled and changes nothing.
C10_DisableFailureLeavesSecret ==
    \A r \in Slots : LET q == reqs[r] IN
        /\ (Finished(q, "disable") /\ q.user # NoUser /\ ~Enrolled(q)) =>
              /\ q.resp = HTTPException(400, "TOTP is not enabled for this account")
              /\ q.writes = 0 /\ Persisted(q) = NoSecret
        /\ (Finished(q, "disable") /\ Enrolled(q) /\ ~CodeOk(q)) =>
              /\ q.resp = InvalidTOTPCode
              /\ q.writes = 0 /\ Persisted(q) = q.user.totp_secret
        /\ (Finished(q, "verify") /\ q.resp.status = 200
            /\ Followed(q, "disable", InvalidTOTPCode)) =>
              /\ Enrolled(q)
              /\ q.totp_code[1] = Hotp(q.user.totp_secret, TimeCode(q.at)) => q.resp.flag

\* A verify-only that answers verified right after a failed disable.
C10_Witness ==
    \E r \in Slots : LET q == reqs[r] IN
        /\ Finished(q, "verify") /\ q.resp.flag
        /\ Followed(q, "disable", InvalidTOTPCode)

(* ================== properties of the enrollment state ================ *)
AlreadyEnrolledSetup ==
    HTTPException(400, "TOTP is already enabled. Use /2fa/disable to disable first.")
AlreadyEnrolledEnable == HTTPException(400, "TOTP is already enabled")
NotEnrolled == HTTPException(400, "TOTP is not enabled for this account")
DisabledOk == [NoResp EXCEPT !.status = 200, !.flag = FALSE,
                  !.detail = "Two-factor authentication disabled successfully"]

\* C11: the persisted secret alone decides enrollment. A request works on the
\* row as the table holds it; with a verified password on an active row login
\* succeeds without a valid code exactly when the secret is absent; setup and
\* enable answer already-enabled, disable is let past not-enabled, and /me
\* reports totp_enabled, exactly when the secret is present; a successful
\* disable leaves the secret absent and the login that follows it
\* authenticates with the password alone.
C11_SecretIsEnrollmentState ==
    \A r \in Slots : LET q == reqs[r] IN
        /\ (q.op \in AuthOps /\ q.pc = "handle") =>
              q.user.totp_secret = Persisted(q)
        /\ (LoginDone(q) /\ PasswordOk(q) /\ q.user.is_active) =>
              /\ ~Enrolled(q) => q.resp.status = 200
              /\ Enrolled(q) => (q.resp.status = 200 <=> CodeOk(q))
              /\ (q.resp = TotpRequired) <=> (Enrolled(q) /\ q.totp_code = <<>>)
        /\ (Finished(q, "setup") /\ q.user # NoUser) =>
              ((q.resp = AlreadyEnrolledSetup) <=> Enrolled(q))
        /\ (Finished(q, "enable") /\ q.user # NoUser) =>
              ((q.resp = AlreadyEnrolledEnable) <=> Enrolled(q))
        /\ (Finished(q, "disable") /\ q.user # NoUser) =>
              /\ (q.resp = NotEnrolled) <=> ~Enrolled(q)
              /\ q.resp = DisabledOk => Persisted(q) = NoSecret
        /\ (Finished(q, "me") /\ q.user # NoUser) =>
              /\ q.resp.status = 200
              /\ q.resp.flag <=> Enrolled(q)
              /\ q.resp.flag <=> (Persisted(q) # NoSecret)
        /\ (LoginDone(q) /\ Followed(q, "disable", DisabledOk)
            /\ PasswordOk(q) /\ q.user.is_active) =>
              ~Enrolled(q) /\ q.resp.status = 200

\* A password-only login that authenticates right after a successful disable.
C11_Witness ==
    \E r \in Slots : LET q == reqs[r] IN
        /\ LoginDone(q) /\ Followed(q, "disable", DisabledOk)
        /\ q.totp_code = <<>> /\ q.resp.access_token # NoToken

\* The codes of a secret for the step of time t and the steps next to it.
WindowCodes(secret, t) == {Hotp(secret, TimeCode(t) + i) : i \in {0 - 1, 0, 1}}

C12_VerifyAnswer ==
    \A r \in Slots : LET q == reqs[r] IN
        /\ q.op = "verify" => q.writes = 0 /\ q.assigned = <<>> /\ q.pc # "commit"
        /\ (Finished(q, "verify") /\ q.user # NoUser) =>
              /\ q.resp.status = 200
              /\ q.user.totp_secret = Persisted(q)
              /\ ~Enrolled(q) => ~q.resp.flag
              /\ Enrolled(q) =>
                    (q.resp.flag <=> q.totp_code[1] \in WindowCodes(q.user.totp_secret, q.at))

C12_VerifyStep ==
    \A r \in Slots :
        (reqs'[r] # reqs[r] /\ "verify" \in {reqs[r].op, reqs'[r].op}) =>
            /\ users' = users
            /\ issued' = issued

IssueDone(q) == q.op = "issue" /\ q.pc = "done"
DecodeDone(q) == q.op = "decode" /\ q.pc = "done"
CorrectlySigned(token) == token.form = "jws" /\ token.key = JWT_SECRET_KEY

\* The instant of a call, in milliseconds.
Instant(q) == Seconds(q.at) + q.ms

\* C13: a correctly signed credential decodes to its payload at every
\* whole-second time before its exp and to None at every one from exp on, the
\* instant exp included; one issued with the configured 30 minutes, explicitly
\* or by default, decodes to None at every instant from issuance + 30 minutes.
C13_ExpiryBoundary ==
    \A r, i \in Slots : LET q == reqs[r] IN
        /\ (DecodeDone(q) /\ CorrectlySigned(q.token) /\ q.ms = 0) =>
              /\ q.at < q.token.payload.exp => q.result = <<q.token.payload>>
              /\ q.at >= q.token.payload.exp => q.result = <<>>
        /\ (DecodeDone(q) /\ IssueDone(reqs[i]) /\ q.token = reqs[i].token
            /\ reqs[i].delta \in {NoDelta, <<Seconds(ACCESS_TOKEN_EXPIRE_MINUTES * 60)>>}
            /\ Instant(q) >= Instant(reqs[i]) + Seconds(ACCESS_TOKEN_EXPIRE_MINUTES * 60)) =>
              q.result = <<>>

\* A credential of the login kind decoded at the very second of its exp, 30
\* minutes after it was issued.
C13_Witness ==
    \E r, i \in Slots : LET q == reqs[r] IN
        /\ DecodeDone(q) /\ CorrectlySigned(q.token) /\ q.ms = 0
        /\ IssueDone(reqs[i]) /\ q.token = reqs[i].token
        /\ reqs[i].delta = <<Seconds(ACCESS_TOKEN_EXPIRE_MINUTES * 60)>>
        /\ q.at = q.token.payload.exp
        /\ q.at = reqs[i].at + ACCESS_TOKEN_EXPIRE_MINUTES * 60
        /\ q.result = <<>>

\* C14: every credential carries an exp; when a ttl is supplied, zero and
\* negative ones included, exp is the second of issuance + ttl, and the
\* configured lifetime is used only when none is supplied; an exp among the
\* caller's claims is replaced.
C14_ExpIsIssuancePlusTtl ==
    \A r \in Slots : LET q == reqs[r] IN
        IssueDone(q) =>
            /\ "exp" \in DOMAIN q.token.payload
            /\ q.delta # NoDelta =>
                  q.token.payload.exp = (Instant(q) + q.delta[1]) \div 1000
            /\ q.delta = NoDelta =>
                  q.token.payload.exp =
                      (Instant(q) + Seconds(ACCESS_TOKEN_EXPIRE_MINUTES * 60)) \div 1000

CouldNotValidate == HTTPException(401, "Could not validate credentials")
Malformed(token) == token.form # "jws"
SignatureMismatch(token) == token.form = "jws" /\ token.key # JWT_SECRET_KEY
Expired(token, t) == CorrectlySigned(token) /\ Seconds(token.payload.exp) <= t
LacksSubject(token) == CorrectlySigned(token) /\ "sub" \notin DOMAIN token.payload

C15_OneOutcome ==
    \A r \in Slots : LET q == reqs[r] IN
        /\ DecodeDone(q) =>
              /\ q.result \in {<<>>, <<q.token.payload>>}
              /\ (q.result = <<>>) <=>
                    \/ Malformed(q.token)
                    \/ SignatureMismatch(q.token)
                    \/ Expired(q.token, Instant(q))
        /\ (q.op = "me" /\ q.pc = "handle") =>
              CorrectlySigned(q.token) /\ ~LacksSubject(q.token)
        /\ (q.op = "me" /\ q.pc = "done" /\ q.resp.status = 401) =>
              LET bad == \/ Malformed(q.token)
                         \/ SignatureMismatch(q.token)
                         \/ Expired(q.token, Seconds(q.at))
                         \/ LacksSubject(q.token)
              IN /\ (q.resp = CouldNotValidate) <=> bad
                 /\ bad => q.reads = 0 /\ q.user = NoUser

\* A request that arrives with an unacceptable credential ends there.
C15_RefusalStep ==
    \A r \in Slots :
        (/\ Free(r) /\ reqs'[r] # reqs[r] /\ reqs'[r].op = "me"
         /\ \/ Malformed(reqs'[r].token)
            \/ SignatureMismatch(reqs'[r].token)
            \/ Expired(reqs'[r].token, Seconds(now))
            \/ LacksSubject(reqs'[r].token)) =>
            reqs'[r].pc = "done" /\ reqs'[r].resp = CouldNotValidate

\* C15: decode answers the payload or the one value None, and None exactly
\* for a malformed string, a signature mismatch and a passed expiry; the
\* dependency answers those three and a valid credential without a subject
\* with one and the same 401, before any store read, and gives that 401 for
\* nothing else.
C15_InvalidCollapses == [](C15_OneOutcome) /\ [][C15_RefusalStep]_vars

\* An expired credential is refused right after another unacceptable one
\* was, with the same response.
C15_Witness ==
    \E r \in Slots : LET q == reqs[r] IN
        /\ q.op = "me" /\ q.pc = "done" /\ q.resp = CouldNotValidate
        /\ Expired(q.token, Seconds(q.at)) /\ ~LacksSubject(q.token)
        /\ Followed(q, "me", CouldNotValidate)

\* C16 as claimed: a credential issued from claim set c with a positive ttl
\* decodes, before its expiry, to every key of c with c's value, plus exp, and
\* nothing else.
C16_RoundTripKeepsEveryClaim ==
    \A r, i \in Slots : LET q == reqs[r]
                            c == reqs[i].data IN
        (/\ DecodeDone(q) /\ IssueDone(reqs[i]) /\ q.token = reqs[i].token
         /\ reqs[i].delta # NoDelta /\ reqs[i].delta[1] > 0
         /\ Instant(q) < Seconds(q.token.payload.exp)) =>
            /\ q.result # <<>>
            /\ DOMAIN q.result[1] = DOMAIN c \cup {"exp"}
            /\ \A k \in DOMAIN c : q.result[1][k] = c[k]

\* C16 amended: the decoded claim set has every key of c other than exp with
\* c's value, an exp that is the second of issuance + ttl, whether or not c
\* had an exp of its own, and nothing else.
C16_RoundTripKeepsClaimsButExp ==
    \A r, i \in Slots : LET q == reqs[r]
                            c == reqs[i].data IN
        (/\ DecodeDone(q) /\ IssueDone(reqs[i]) /\ q.token = reqs[i].token
         /\ reqs[i].delta # NoDelta /\ reqs[i].delta[1] > 0
         /\ Instant(q) < Seconds(q.token.payload.exp)) =>
            /\ q.result # <<>>
            /\ DOMAIN q.result[1] = DOMAIN c \cup {"exp"}
            /\ \A k \in DOMAIN c \ {"exp"} : q.result[1][k] = c[k]
            /\ q.result[1].exp = (Instant(reqs[i]) + reqs[i].delta[1]) \div 1000

\* A claim set with an exp of its own comes back with the issuer's exp.
C16_Witness ==
    \E r, i \in Slots : LET q == reqs[r]
                            c == reqs[i].data IN
        /\ DecodeDone(q) /\ IssueDone(reqs[i]) /\ q.token = reqs[i].token
        /\ reqs[i].delta # NoDelta /\ reqs[i].delta[1] > 0
        /\ q.result # <<>> /\ "exp" \in DOMAIN c
        /\ q.result[1].sub = c.sub /\ q.result[1].exp # c.exp

C17_Admitted ==
    \A r \in Slots : LET q == reqs[r] IN
        (q.op = "me" /\ (q.pc = "handle" \/ (q.pc = "done" /\ q.resp.status = 200))) =>
            /\ q.user # NoUser /\ q.user.is_active
            /\ CorrectlySigned(q.token) /\ q.user.id = q.token.payload.sub

C17_AdmissionStep ==
    \A r \in Slots :
        (Free(r) /\ reqs'[r] # reqs[r] /\ reqs'[r].op = "me"
         /\ CorrectlySigned(reqs'[r].token) /\ ~Expired(reqs'[r].token, Seconds(now))
         /\ ~LacksSubject(reqs'[r].token)) =>
            LET sub == reqs'[r].token.payload.sub IN
            IF sub \in DOMAIN users /\ users[sub].is_active
            THEN reqs'[r].pc = "handle" /\ reqs'[r].user = users[sub]
            ELSE reqs'[r].pc = "done" /\ reqs'[r].resp.status = 401

\* C17: a request with an unexpired, correctly signed credential gets past
\* the dependency exactly when, at that moment, the table has a row with the
\* subject's id and the row is active, and it then works on that row; when
\* the row is gone or inactive the request ends with 401, however often the
\* credential was accepted before.
C17_SubjectMustExistAndBeActive == [](C17_Admitted) /\ [][C17_AdmissionStep]_vars

\* The credential is refused with "User not found" right after /me answered
\* 200 to it: the row was deleted in between.
C17_Witness ==
    \E r \in Slots : LET q == reqs[r] IN
        /\ q.op = "me" /\ q.pc = "done"
        /\ q.resp = HTTPException(401, "User not found")
        /\ CorrectlySigned(q.token) /\ ~Expired(q.token, Seconds(q.at))
        /\ q.after.op = "me" /\ q.after.status = 200

(* ====================== properties of the verifiers =================== *)
TotpCall(q) == q.op = "verify_totp" /\ q.pc = "done"
PasswordCall(q) == q.op = "verify_password" /\ q.pc = "done"

\* C18: for a generated secret, verify_totp at step T answers true exactly
\* for the secret's codes of steps T-1, T and T+1; so the code of a step T0 is
\* accepted at steps T0-1, T0 and T0+1 and at no other step, and in
\* particular not 90 seconds after a time at which it was the current code.
C18_WindowOfOneStep ==
    \A r \in Slots : LET q == reqs[r] IN
        (TotpCall(q) /\ q.secret \in ValidSecrets) =>
            /\ (q.result = <<TRUE>>) <=> (q.totp_code[1] \in WindowCodes(q.secret, q.at))
            /\ \A T0 \in 0..(MaxHalfSteps \div 2 + 2) :
                  q.totp_code[1] = Hotp(q.secret, T0) =>
                      /\ (q.result = <<TRUE>>) <=>
                            TimeCode(q.at) \in {T0 - 1, T0, T0 + 1}
                      /\ (\E t \in 0..(q.at - 3 * TOTP_INTERVAL) :
                             /\ TimeCode(t) = T0
                             /\ q.at = t + 3 * TOTP_INTERVAL) => q.result = <<FALSE>>

\* The code that was current 90 seconds before the call is refused.
C18_Witness ==
    \E r \in Slots : LET q == reqs[r] IN
        /\ TotpCall(q) /\ q.secret \in ValidSecrets
        /\ q.at >= 4 * TOTP_INTERVAL
        /\ q.totp_code[1] = Hotp(q.secret, TimeCode(q.at - 3 * TOTP_INTERVAL))
        /\ q.result = <<FALSE>>

\* C20: both verifiers answer a boolean for every input, and false whenever
\* the hash is no bcrypt hash, the secret is empty, outside base-32 or
\* over-long, or the code is no six digits.
C20_MalformedInputIsFalse ==
    \A r \in Slots : LET q == reqs[r] IN
        /\ PasswordCall(q) =>
              /\ q.result \in {<<TRUE>>, <<FALSE>>}
              /\ q.user.hashed_password \in InvalidHashes => q.result = <<FALSE>>
        /\ TotpCall(q) =>
              /\ q.result \in {<<TRUE>>, <<FALSE>>}
              /\ q.secret \in {EmptySecret, MalformedSecret, LongSecret} =>
                    q.result = <<FALSE>>
              /\ q.totp_code[1] \in MalformedCodes => q.result = <<FALSE>>

(* ======================= properties of code reuse ===================== *)
\* The handler of q checked q's code against the secret of the row it read.
CodeChecked(q) ==
    /\ q.pc = "done" /\ Enrolled(q) /\ q.totp_code # <<>>
    /\ \/ q.op = "login" /\ PasswordOk(q) /\ q.user.is_active
       \/ q.op \in {"disable", "verify"}

CodeAccepted(q) ==
    IF q.op = "login" THEN q.resp.status = 200
    ELSE IF q.op = "verify" THEN q.resp.flag
    ELSE q.resp = DisabledOk

\* The request before q presented q's code and had it accepted.
AcceptedJustBefore(q) ==
    /\ q.after.code = q.totp_code
    /\ \/ q.after.op = "login" /\ q.after.status = 200
       \/ q.after.op = "verify" /\ q.after.detail = "TOTP code verified successfully"

\* C19: whether login, disable or verify-only accepts a code depends on the
\* secret, the code and the time of the check alone: it is accepted exactly
\* when it is one of the secret's codes in the window, so a code that the
\* previous request had accepted is accepted again while it is in the window.
C19_CodesAreReusable ==
    \A r \in Slots : LET q == reqs[r] IN
        CodeChecked(q) =>
            /\ CodeAccepted(q) <=> q.totp_code[1] \in WindowCodes(q.user.totp_secret, q.at)
            /\ (AcceptedJustBefore(q)
                /\ q.totp_code[1] \in WindowCodes(q.user.totp_secret, q.at)) => CodeAccepted(q)

\* Disable accepts the code that the verify-only before it had accepted.
C19_Witness ==
    \E r \in Slots : LET q == reqs[r] IN
        /\ Finished(q, "disable") /\ q.resp = DisabledOk
        /\ AcceptedJustBefore(q) /\ q.after.op = "verify"

(* ===================== properties of password hashing ================= *)
\* The call of q compared q's password with a hash get_password_hash made of p2.
AgainstHashOf(q, p2) == PasswordCall(q) /\ q.user.hashed_password \in PasswordHashes(p2)

\* C21 as stated: verify_password(p1, get_password_hash(p2)) is false for
\* every two different passwords, whatever their length.
C21_DifferentPasswordNeverVerifies ==
    \A r \in Slots : LET q == reqs[r] IN
        \A p2 \in VerifyPasswords :
            (AgainstHashOf(q, p2) /\ q.password # p2) => q.result = <<FALSE>>

\* C21: verify_password(p1, get_password_hash(p2)) is false for every two
\* passwords that differ within their first 72 bytes, and true for every two
\* that agree on them.
C21_DifferentPrefixNeverVerifies ==
    \A r \in Slots : LET q == reqs[r] IN
        \A p2 \in VerifyPasswords :
            AgainstHashOf(q, p2) =>
                (q.result = <<TRUE>>) <=> (Truncate(q.password) = Truncate(p2))

\* A password is refused against the hash of one that differs from it within
\* the first 72 bytes, both being longer than that or not.
C21_Witness ==
    \E r \in Slots : LET q == reqs[r] IN
        /\ AgainstHashOf(q, <<"Pw1", "x">>)
        /\ q.password = <<"Pw2", "">>
        /\ q.result = <<FALSE>>

(* ======================= properties of registration =================== *)
EmailTaken == HTTPException(400, "Email already registered")
UsernameTaken == HTTPException(400, "Username already taken")
Created == [NoResp EXCEPT !.status = 201]

\* No two rows share an email, no two share a username.
UniqueRows ==
    \A u, v \in DOMAIN users :
        u # v => /\ users[u].email # users[v].email
                 /\ users[u].username # users[v].username

\* Request r made its email check in this step.
EmailChecked(r) == Free(r) /\ reqs'[r] # reqs[r] /\ reqs'[r].op = "register"

\* Request r made its username check in this step.
UsernameChecked(r) ==
    /\ reqs[r].op = "register" /\ reqs[r].pc = "check_username"
    /\ reqs'[r].pc \in {"done", "commit"}

C22_RejectStep ==
    \A r \in Slots :
        /\ (EmailChecked(r) /\ ByEmail(reqs'[r].email) # NoUser) =>
              /\ reqs'[r].pc = "done" /\ reqs'[r].resp = EmailTaken
              /\ users' = users
        /\ (UsernameChecked(r) /\ ByUsername(reqs[r].username) # NoUser) =>
              /\ reqs'[r].pc = "done" /\ reqs'[r].resp = UsernameTaken
              /\ users' = users

\* A request that was turned away wrote nothing.
RejectedWroteNothing ==
    \A r \in Slots : LET q == reqs[r] IN
        (q.op = "register" /\ q.pc = "done" /\ q.resp.status = 400) =>
            /\ q.writes = 0
            /\ q.resp \in {EmailTaken, UsernameTaken}

\* C22: no two rows ever share an email or a username; a register that finds
\* its email in the table ends with 400 "Email already registered", also when
\* its username is there too, one that finds its username there ends with 400
\* "Username already taken", and neither creates a row.
C22_UniqueEmailAndUsername ==
    [](UniqueRows /\ RejectedWroteNothing) /\ [][C22_RejectStep]_vars

\* A register whose email belongs to one row and whose username belongs to
\* another is answered with the email conflict, after two registrations.
C22_Witness ==
    \E r \in Slots : LET q == reqs[r] IN
        /\ q.op = "register" /\ q.pc = "done" /\ q.resp = EmailTaken
        /\ ByEmail(q.email) # NoUser /\ ByUsername(q.username) # NoUser
        /\ ByEmail(q.email) # ByUsername(q.username)
        /\ q.writes = 0

(* ======================= properties of cancellation =================== *)
\* An enable or disable request that was cancelled before it returned.
CancelledTotpWrite(q) == q.pc = "cancelled" /\ q.op \in {"enable", "disable"}

\* C23 as stated: a cancelled enable or disable request wrote nothing, and
\* the secret in the table is the one its dependency had read, at whichever
\* await it was cancelled.
C23_CancelLeavesSecret ==
    \A r \in Slots : LET q == reqs[r] IN
        (CancelledTotpWrite(q) /\ q.user.id \in DOMAIN users) =>
            /\ q.writes = 0
            /\ users[q.user.id].totp_secret = q.user.totp_secret

(* ============================ properties of chat ====================== *)
\* The user a chat request is authenticated as, <<>> when it is not.
Caller(q) == IF AuthFailure(q.token, now) = NoResp THEN AuthSubject(q.token, now) ELSE <<>>

\* The requests that name a conversation in their path.
OnConversation == {"get_conversation", "update_conversation", "delete_conversation",
                   "list_messages", "create_message"}

\* Slot r took a new chat request in this step.
ChatArrived(r) == ChatFree(r) /\ creqs'[r] # creqs[r]

C24_IsolationStep ==
    \A r \in Slots : LET q == creqs'[r] IN
        (ChatArrived(r) /\ Caller(q) # <<>>) =>
            /\ (/\ q.op \in OnConversation
                /\ q.conv \in DOMAIN convs
                /\ convs[q.conv].user_id # Caller(q)[1]) =>
                    /\ q.pc = "done" /\ q.resp = NotFound /\ q.view = {}
                    /\ convs' = convs
            /\ q.op = "list_conversations" =>
                    \A c \in DOMAIN convs : convs[c].user_id # Caller(q)[1] => c \notin q.view

\* C24: a get, update, delete, list-messages or create-message request of an
\* authenticated user on a conversation that another user owns answers 404
\* "Conversation not found" and changes neither the conversation nor its
\* messages, and a user's conversation list holds no conversation of another.
C24_ConversationIsolation == [][C24_IsolationStep]_vars

\* The second user's delete of the first user's conversation, which holds a
\* user message and its answer, was answered 404 and the conversation is there.
C24_Witness ==
    \E r \in Slots : LET q == creqs[r] IN
        /\ q.op = "delete_conversation" /\ q.pc = "done" /\ q.resp = NotFound
        /\ Caller(q) = <<2>>
        /\ q.conv \in DOMAIN convs /\ convs[q.conv].user_id = 1
        /\ Len(convs[q.conv].messages) = 2

\* The stored messages of every conversation are user/assistant pairs.
PairsOnly ==
    \A c \in DOMAIN convs : LET m == convs[c].messages IN
        /\ Len(m) % 2 = 0
        /\ \A i \in DOMAIN m : m[i].role = IF i % 2 = 1 THEN "user" ELSE "assistant"

C30_ReplyStep ==
    /\ \A r \in Slots :
          (creqs[r].pc = "ai" /\ creqs'[r].pc = "done") =>
              LET q == creqs[r]
                  c == q.conv
              IN IF creqs'[r].resp.status = 201
                 THEN /\ convs'[c].messages =
                            convs[c].messages \o <<Msg("user", q.content), Msg("assistant", Answer)>>
                      /\ convs'[c].title \in {convs[c].title, GeneratedTitle(q.content)}
                      /\ convs'[c].title # convs[c].title => convs[c].title = NoTitle
                      /\ \A x \in DOMAIN convs \ {c} : x \in DOMAIN convs' /\ convs'[x] = convs[x]
                 ELSE /\ creqs'[r].resp.status \in {404, 500, 503, 504}
                      /\ convs' = convs
    /\ \A c \in DOMAIN convs \cap DOMAIN convs' :
          convs'[c].messages # convs[c].messages =>
              \E r \in Slots : /\ creqs[r].pc = "ai" /\ creqs[r].conv = c
                               /\ creqs'[r].resp.status = 201

\* C30: when client.chat fails create_message persists nothing, neither the
\* user message nor an answer nor a title; when it returns, the user message
\* and the answer are persisted together; messages are stored by no other
\* step, so every conversation holds complete user/assistant pairs.
C30_AllOrNothing == [](PairsOnly) /\ [][C30_ReplyStep]_vars

\* A create_message that failed with 503 after one that succeeded: the
\* conversation holds the one pair and the title the first one generated.
C30_Witness ==
    \E r \in Slots : LET q == creqs[r] IN
        /\ q.op = "create_message" /\ q.pc = "done" /\ q.resp.status = 503
        /\ q.conv \in DOMAIN convs
        /\ Len(convs[q.conv].messages) = 2
        /\ convs[q.conv].title = GeneratedTitle(LongContent)

(* ================ properties of the origin of persisted secrets ======= *)
\* C25 as stated: every secret in the table is one that a setup call of that
\* user has returned before.
C25_PersistedWasOffered ==
    \A u \in DOMAIN users :
        users[u].totp_secret # NoSecret => <<u, users[u].totp_secret>> \in offered

(* ==================== properties of login's store access ============== *)
\* A login request has written nothing, and read once when it is past its
\* read or has answered.
LoginReadsOnce ==
    \A r \in Slots : LET q == reqs[r] IN
        q.op = "login" =>
            /\ q.writes = 0 /\ q.assigned = <<>>
            /\ q.pc \in {"handle", "done"} => q.reads = 1

\* A step of a login request leaves every row as it was.
C26_LoginStep ==
    \A r \in Slots :
        (reqs'[r] # reqs[r] /\ reqs'[r].op = "login") => users' = users

\* C26: a login, whatever its outcome, reads the users table once and never
\* writes: no step of it changes any field of any row.
C26_LoginOnlyReads == [](LoginReadsOnce) /\ [][C26_LoginStep]_vars

\* A login of an enrolled user was refused for its code, and one was granted:
\* both after the one read, the row as it was.
C26_Witness ==
    \E r \in Slots : LET q == reqs[r] IN
        /\ LoginDone(q) /\ q.resp.status = 200 /\ Enrolled(q)
        /\ q.after.op = "login" /\ q.after.detail = "Invalid TOTP code"
        /\ q.reads = 1 /\ users[q.user.id] = q.user


(* ------------------------- concurrent enables ------------------------- *)
\* Request r is an enable whose UPDATE reaches the store in this step.
EnableWrites(r) ==
    /\ reqs[r].op = "enable" /\ reqs[r].pc = "commit"
    /\ reqs'[r].writes = reqs[r].writes + 1

C27_WriteStep ==
    \A r \in Slots :
        EnableWrites(r) => users[reqs[r].user.id].totp_secret = NoSecret

\* C27: of the enables of one user that overlap, each with its own secret
\* and a code valid for it, at most one persists its secret: the write of
\* an enable never lands on a row that holds a secret at that moment.
C27_EnableNeverOverwrites == [][C27_WriteStep]_vars


(* --------------------- concurrent registrations ----------------------- *)
\* The answers the endpoint documents for a register that ran to its end.
RegisterAnswers == {EmailTaken, UsernameTaken}

C28_Answered ==
    \A r \in Slots : LET q == reqs[r] IN
        (q.op = "register" /\ q.pc = "done") =>
            \/ q.resp.status = Created.status /\ q.writes = 1
            \/ q.resp \in RegisterAnswers /\ q.writes = 0

\* C28: of the registers that overlap with the same email or the same
\* username, one creates the row and every other ends with the 400
\* already-registered answer: a register that ran to its end answered 201
\* having created its row, or one of the two 400 rejections having created
\* none, and never a fault of the store.
C28_DuplicateAlwaysRejected == C28_Answered


(* =================== properties of get_optional_user ================== *)
\* The credential names a row the table holds, active, at moment t.
NamesActiveUser(token, t) ==
    /\ CorrectlySigned(token) /\ ~Expired(token, t) /\ ~LacksSubject(token)
    /\ token.payload.sub \in DOMAIN users
    /\ users[token.payload.sub].is_active

C29_Returned ==
    \A r \in Slots : LET q == reqs[r] IN
        Finished(q, "optional") =>
            /\ q.resp = NoResp
            /\ q.ops = <<>> => q.user = NoUser
            /\ q.user # NoUser =>
                  /\ CorrectlySigned(q.token) /\ ~Expired(q.token, Seconds(q.at))
                  /\ ~LacksSubject(q.token)
                  /\ q.user.id = q.token.payload.sub /\ q.user.is_active

C29_CallStep ==
    \A r \in Slots :
        (Free(r) /\ reqs'[r] # reqs[r] /\ reqs'[r].op = "optional"
         /\ reqs'[r].ops # <<>>) =>
            LET token == reqs'[r].token IN
            /\ reqs'[r].user = IF NamesActiveUser(token, Seconds(now))
                               THEN users[token.payload.sub] ELSE NoUser
            /\ reqs'[r].user = IF AuthFailure(token, now) = NoResp
                               THEN ById(AuthSubject(token, now)[1]) ELSE NoUser
            /\ users' = users

\* C29: get_optional_user never raises; it returns None without credentials
\* and for a credential that is malformed, expired, wrongly signed, without a
\* subject, or naming a missing or inactive row, and it returns the row in
\* exactly the cases in which get_current_user_dep returns it.
C29_OptionalNeverRaises == [](C29_Returned) /\ [][C29_CallStep]_vars

\* A correctly signed, unexpired credential of a deactivated user, for which
\* the dependency raises 401 "Inactive user": the call returned None.
C29_Witness ==
    \E r \in Slots : LET q == reqs[r] IN
        /\ Finished(q, "optional") /\ q.ops = <<"get_current_user_dep">>
        /\ CorrectlySigned(q.token) /\ ~Expired(q.token, Seconds(q.at))
        /\ AuthFailure(q.token, q.at) = HTTPException(401, "Inactive user")
        /\ q.user = NoUser /\ q.resp = NoResp /\ q.reads = 1

====
